---- MODULE Spec2Model ----
(***************************************************************************)
(* Workflow control core of doc-creator: the routing functions of          *)
(* backend/routing.py over DocumentState (backend/state.py), the           *)
(* validate / fix / error / rollback loop they drive, the checkpoint       *)
(* restore of backend/utils/checkpoint.py and the session directories of   *)
(* backend/utils/session_manager.py.                                       *)
(*                                                                         *)
(* A DocumentState is a Python dict (TypedDict, total=False): it is        *)
(* modelled as a function whose DOMAIN is the set of keys present.         *)
(* A str is a sequence of one-character strings.                           *)
(***************************************************************************)
EXTENDS Integers, Sequences, FiniteSets, TLC

VARIABLES
    state,      \* the DocumentState dict threaded through the workflow
    pc,         \* the graph node (or router) that runs next
    called,     \* name of the function called last ("none" before any)
    arg,        \* what that function was given: the dict, or the arguments and the disk
    result,     \* what that function returned, or the exception raised
    fixRoutes,  \* how many times route_after_validation has sent the run to "agent"
    rollbacks,  \* how many times rollback_node has run
    cp,         \* the working file and the checkpoints directory of the session
    sm,         \* the session directories and their archives on disk
    op,         \* the SessionManager call in progress and the step it is at
    waiting,    \* a second SessionManager call, suspended while the first runs
    issued,     \* the session ids uuid.uuid4() has returned so far
    restores    \* how many times a checkpoint was copied over the working file
                \* since the last error was raised

vars == <<state, pc, called, arg, result, fixRoutes, rollbacks, cp, sm, op, waiting,
          issued, restores>>

\* what the routing core never touches
disk == <<rollbacks, cp, sm, op, waiting, issued, restores>>

----------------------------------------------------------------------------
(* Bounds of the model *)

MaxStrLen == 2
MaxCount == 4

(* Program constants *)

MAX_FIX_ATTEMPTS == 3

MAX_RETRY_ATTEMPTS_off_by_one == 3 + 1
MAX_RETRY_ATTEMPTS == 3

----------------------------------------------------------------------------
(* Strings *)

Chars == {" ", "a"}

RECURSIVE StringsOfLen(_)
StringsOfLen(n) ==
    IF n = 0 THEN {<<>>}
    ELSE {Append(s, c) : s \in StringsOfLen(n - 1), c \in Chars}

Strings == UNION {StringsOfLen(n) : n \in 0..MaxStrLen}

IsSpace(c) == c = " "

\* str.lstrip(): drop leading whitespace
RECURSIVE lstrip(_)
lstrip(s) ==
    IF s = <<>> THEN <<>>
    ELSE IF IsSpace(Head(s)) THEN lstrip(Tail(s))
    ELSE s

\* str.rstrip(): drop trailing whitespace
RECURSIVE rstrip(_)
rstrip(s) ==
    IF s = <<>> THEN <<>>
    ELSE IF IsSpace(s[Len(s)]) THEN rstrip(SubSeq(s, 1, Len(s) - 1))
    ELSE s

\* str.strip(): drop whitespace at both ends
strip(s) == rstrip(lstrip(s))

\* bool(s) for a str: the empty string is falsy, every other string truthy
TruthyStr(s) == Len(s) > 0

----------------------------------------------------------------------------
(* DocumentState: the keys the routing core reads or writes *)

StrKeys == {"pending_question", "last_checkpoint_id"}
BoolKeys == {"generation_complete", "validation_passed"}
IntKeys == {"fix_attempts", "retry_count"}
RouterKeys == StrKeys \cup BoolKeys \cup IntKeys

\* A key's value, or no value: {} is "key absent", {v} is "key present with value v"
OptStr == {{}} \cup {{s} : s \in Strings}
OptBool == {{}, {TRUE}, {FALSE}}
OptInt == {{}} \cup {{n} : n \in 0..MaxCount}

MkState(o) ==
    [k \in {x \in DOMAIN o : o[x] # {}} |-> CHOOSE v \in o[k] : TRUE]

AllStates ==
    {MkState(o) : o \in [pending_question : OptStr,
                         last_checkpoint_id : OptStr,
                         generation_complete : OptBool,
                         validation_passed : OptBool,
                         fix_attempts : OptInt,
                         retry_count : OptInt]}

\* k in state
Has(s, k) == k \in DOMAIN s

\* state[k] = v, adding the key when it is absent
Put(s, k, v) == [x \in DOMAIN s \cup {k} |-> IF x = k THEN v ELSE s[x]]

\* a state.get(k, d) that gives the default whatever the dict holds
GetOr_always_default(s, k, d) == d

\* state.get(k, d)
GetOr(s, k, d) == IF Has(s, k) THEN s[k] ELSE d

\* bool(state.get(k)) for a str key: None (key absent) is falsy
GetTruthyStr(s, k) == Has(s, k) /\ TruthyStr(s[k])

\* bool(state.get(k)) for a bool key: None (key absent) is falsy
GetTruthyBool(s, k) == Has(s, k) /\ s[k]

----------------------------------------------------------------------------
(* backend/routing.py *)

\* A routing function returns a step name; "KeyError" stands for the
\* exception state[k] raises when k is not in the dict.

\* state[k] used where state.get(k) stands in the source: raises on an absent key
IndexAndStripItem(s, k) ==
    IF ~Has(s, k) THEN "KeyError"
    ELSE IF TruthyStr(s[k]) /\ TruthyStr(strip(s[k])) THEN "truthy"
    ELSE "falsy"

\* The condition `state.get(k) and str(state[k]).strip()`: `and` evaluates
\* its right operand only when the left one is truthy; str() of a str is
\* that str.
GetAndStripItem(s, k) ==
    IF ~GetTruthyStr(s, k) THEN "falsy"
    ELSE IF ~Has(s, k) THEN "KeyError"
    ELSE IF TruthyStr(strip(s[k])) THEN "truthy"
    ELSE "falsy"

\* route_after_tools with the checkpoint check placed before the question check
route_after_tools_checkpoint_first(s) ==
    LET q == GetAndStripItem(s, "pending_question")
        c == GetAndStripItem(s, "last_checkpoint_id")
    IN  IF c = "KeyError" THEN "KeyError"
        ELSE IF c = "truthy" THEN "validate"
        ELSE IF q = "KeyError" THEN "KeyError"
        ELSE IF q = "truthy" THEN "human_input"
        ELSE IF GetTruthyBool(s, "generation_complete") THEN "complete"
        ELSE "agent"

\* route_after_tools with the completion check placed before the checkpoint check
route_after_tools_complete_first(s) ==
    LET q == GetAndStripItem(s, "pending_question")
        c == GetAndStripItem(s, "last_checkpoint_id")
    IN  IF q = "KeyError" THEN "KeyError"
        ELSE IF q = "truthy" THEN "human_input"
        ELSE IF GetTruthyBool(s, "generation_complete") THEN "complete"
        ELSE IF c = "KeyError" THEN "KeyError"
        ELSE IF c = "truthy" THEN "validate"
        ELSE "agent"

route_after_tools(s) ==
    LET q == GetAndStripItem(s, "pending_question")
        c == GetAndStripItem(s, "last_checkpoint_id")
    IN  IF q = "KeyError" THEN "KeyError"
        ELSE IF q = "truthy" THEN "human_input"
        ELSE IF c = "KeyError" THEN "KeyError"
        ELSE IF c = "truthy" THEN "validate"
        ELSE IF GetTruthyBool(s, "generation_complete") THEN "complete"
        ELSE "agent"

\* route_after_validation with the ceiling check placed before validation_passed
route_after_validation_ceiling_first(s) ==
    IF GetOr(s, "fix_attempts", 0) >= MAX_FIX_ATTEMPTS THEN "complete"
    ELSE IF GetTruthyBool(s, "validation_passed") THEN "checkpoint"
    ELSE "agent"

\* route_after_validation with > for >= in the ceiling check
route_after_validation_gt(s) ==
    IF GetTruthyBool(s, "validation_passed") THEN "checkpoint"
    ELSE IF GetOr(s, "fix_attempts", 0) > MAX_FIX_ATTEMPTS THEN "complete"
    ELSE "agent"

\* route_after_validation without its ceiling check
route_after_validation_no_ceiling(s) ==
    IF GetTruthyBool(s, "validation_passed") THEN "checkpoint"
    ELSE "agent"

route_after_validation(s) ==
    IF GetTruthyBool(s, "validation_passed") THEN "checkpoint"
    ELSE IF GetOr(s, "fix_attempts", 0) >= MAX_FIX_ATTEMPTS THEN "complete"
    ELSE "agent"

\* route_after_error without its checkpoint test: a retry whenever one is left
route_after_error_no_checkpoint_test(s) ==
    IF GetOr(s, "retry_count", 0) < MAX_RETRY_ATTEMPTS THEN "rollback" ELSE "complete"

\* route_after_error with <= for < in the retry check
route_after_error_le(s) ==
    LET retry_count == GetOr(s, "retry_count", 0)
        last_checkpoint_id == GetOr(s, "last_checkpoint_id", <<>>)
    IN  IF /\ TruthyStr(last_checkpoint_id)
           /\ TruthyStr(strip(last_checkpoint_id))
           /\ retry_count <= MAX_RETRY_ATTEMPTS
        THEN "rollback"
        ELSE "complete"

\* route_after_error without its retry ceiling
route_after_error_no_ceiling(s) ==
    LET last_checkpoint_id == GetOr(s, "last_checkpoint_id", <<>>)
    IN  IF TruthyStr(last_checkpoint_id) /\ TruthyStr(strip(last_checkpoint_id))
        THEN "rollback"
        ELSE "complete"

route_after_error(s) ==
    LET retry_count == GetOr(s, "retry_count", 0)
        last_checkpoint_id == GetOr(s, "last_checkpoint_id", <<>>)
    IN  IF /\ TruthyStr(last_checkpoint_id)
           /\ TruthyStr(strip(last_checkpoint_id))
           /\ retry_count < MAX_RETRY_ATTEMPTS
        THEN "rollback"
        ELSE "complete"

\* "retry" while retry_count (0 when the key is absent) is below the ceiling
should_retry_conversion(s) ==
    IF GetOr(s, "retry_count", 0) < MAX_RETRY_ATTEMPTS THEN "retry" ELSE "fail"

\* The dict after a call. No routing function assigns to a key of state.

route_after_tools_state(s) == s

\* what the docstring of route_after_validation announces ("Also increments
\* fix_attempts when routing to agent") and its body does not do
route_after_validation_state_incr(s) ==
    IF route_after_validation(s) = "agent"
    THEN Put(s, "fix_attempts", GetOr(s, "fix_attempts", 0) + 1)
    ELSE s

route_after_validation_state(s) == s

route_after_error_state(s) == s

should_retry_conversion_state(s) == s

----------------------------------------------------------------------------
(* backend/utils/checkpoint.py: restoring the working file from a checkpoint *)

MaxIdLen == 2

\* the characters a checkpoint id is made of: a name character, the dot,
\* the two path separators and whitespace
IdChars == {"a", ".", "/", "\\", " "}

RECURSIVE IdsOfLen(_)
IdsOfLen(n) ==
    IF n = 0 THEN {<<>>}
    ELSE {Append(s, c) : s \in IdsOfLen(n - 1), c \in IdChars}

Ids == UNION {IdsOfLen(n) : n \in 0..MaxIdLen}

\* session ids: two well-formed UUIDs and one string uuid.UUID() rejects
SessionIds == {"uuid-1", "uuid-2", "not-a-uuid"}

\* SessionManager._validate_session_id: uuid.UUID(session_id) parses
IsUuid(sid) == sid \in {"uuid-1", "uuid-2"}

\* `c in s` for a one-character c
Contains(s, c) == \E i \in 1..Len(s) : s[i] = c

\* `".." in s`
ContainsDotDot(s) == \E i \in 1..(Len(s) - 1) : s[i] = "." /\ s[i + 1] = "."

(* The part of the filesystem a restore can touch.  work is the content   *)
(* of <session>/temp_output.md ("none": no such file); dir maps each name *)
(* in <session>/checkpoints/ to its entry, a regular file with its        *)
(* content or a symbolic link with its target.                            *)

DirNames == {<<"a">>, <<"a", "\\">>}
FileData == {"c1", "c2"}
LinkTargets == {"inputs_file", "outside_file", "session_root", "temp_output"}

DirEntries ==
    {[kind |-> "file", data |-> d] : d \in FileData}
        \cup {[kind |-> "link", data |-> t] : t \in LinkTargets}

Dirs == UNION {[N -> DirEntries] : N \in SUBSET DirNames}

CpStates == [work : {"none", "w"}, dir : Dirs]

\* (checkpoints_dir / cid).resolve(): symbolic links followed, "." folded
Resolve(fs, cid) ==
    IF cid = <<".">> THEN [area |-> "checkpoints_dir", name |-> <<>>]
    ELSE IF cid \in DOMAIN fs.dir /\ fs.dir[cid].kind = "link"
    THEN [area |-> fs.dir[cid].data, name |-> <<>>]
    ELSE [area |-> "checkpoints", name |-> cid]

\* resolved.is_relative_to(session_resolved)
IsRelativeToSession(loc) == loc.area # "outside_file"

\* the location lies strictly inside <session>/checkpoints/
InsideCheckpointsDir(loc) == loc.area = "checkpoints"

\* Path.exists()
PathExists(fs, loc) ==
    IF loc.area = "checkpoints" THEN loc.name \in DOMAIN fs.dir
    ELSE IF loc.area = "temp_output" THEN fs.work # "none"
    ELSE TRUE

IsDirectory(loc) == loc.area \in {"checkpoints_dir", "session_root"}

\* the bytes read from a regular file
FileContent(fs, loc) ==
    IF loc.area = "checkpoints" THEN fs.dir[loc.name].data
    ELSE IF loc.area = "inputs_file" THEN "in"
    ELSE IF loc.area = "outside_file" THEN "out"
    ELSE fs.work

\* _validate_checkpoint_id without the backslash test of its separator check
validate_checkpoint_id_slash_only(fs, checkpoint_id) ==
    LET cid == IF TruthyStr(checkpoint_id) THEN strip(checkpoint_id) ELSE <<>>
    IN  IF ~TruthyStr(cid) THEN [raised |-> TRUE, loc |-> Resolve(fs, cid)]
        ELSE IF Contains(cid, "/") THEN [raised |-> TRUE, loc |-> Resolve(fs, cid)]
        ELSE IF ContainsDotDot(cid) THEN [raised |-> TRUE, loc |-> Resolve(fs, cid)]
        ELSE [raised |-> ~IsRelativeToSession(Resolve(fs, cid)),
              loc |-> Resolve(fs, cid)]

\* _validate_checkpoint_id without the final is_relative_to check
validate_checkpoint_id_no_escape_check(fs, checkpoint_id) ==
    LET cid == IF TruthyStr(checkpoint_id) THEN strip(checkpoint_id) ELSE <<>>
    IN  IF ~TruthyStr(cid) THEN [raised |-> TRUE, loc |-> Resolve(fs, cid)]
        ELSE IF Contains(cid, "/") \/ Contains(cid, "\\")
        THEN [raised |-> TRUE, loc |-> Resolve(fs, cid)]
        ELSE IF ContainsDotDot(cid) THEN [raised |-> TRUE, loc |-> Resolve(fs, cid)]
        ELSE [raised |-> FALSE, loc |-> Resolve(fs, cid)]

\* _validate_checkpoint_id: raised is "ValueError was raised", loc the
\* resolved path it returns otherwise
validate_checkpoint_id(fs, checkpoint_id) ==
    LET cid == IF TruthyStr(checkpoint_id) THEN strip(checkpoint_id) ELSE <<>>
    IN  IF ~TruthyStr(cid) THEN [raised |-> TRUE, loc |-> Resolve(fs, cid)]
        ELSE IF Contains(cid, "/") \/ Contains(cid, "\\")
        THEN [raised |-> TRUE, loc |-> Resolve(fs, cid)]
        ELSE IF ContainsDotDot(cid) THEN [raised |-> TRUE, loc |-> Resolve(fs, cid)]
        ELSE [raised |-> ~IsRelativeToSession(Resolve(fs, cid)),
              loc |-> Resolve(fs, cid)]

\* how shutil.copy2 can end: "ok", or an OSError raised before the
\* destination is opened ("fail_clean") or after it was truncated and
\* partly written ("fail_partial")
IoOutcomes == {"ok", "fail_clean", "fail_partial"}

\* the body of the try block of restore_from_checkpoint: what it returns or
\* raises (ret), and the working file afterwards (work)
restore_try(session_id, checkpoint_id, fs, io) ==
    LET v == validate_checkpoint_id(fs, checkpoint_id)
    IN  IF ~IsUuid(session_id) THEN [ret |-> "ValueError", work |-> fs.work]
        ELSE IF v.raised THEN [ret |-> "ValueError", work |-> fs.work]
        ELSE IF ~PathExists(fs, v.loc) THEN [ret |-> "False", work |-> fs.work]
        ELSE IF v.loc.area = "temp_output" THEN [ret |-> "Exception", work |-> fs.work]
        ELSE IF IsDirectory(v.loc) THEN [ret |-> "Exception", work |-> fs.work]
        ELSE IF io = "fail_clean" THEN [ret |-> "Exception", work |-> fs.work]
        ELSE IF io = "fail_partial" THEN [ret |-> "Exception", work |-> "partial"]
        ELSE [ret |-> "True", work |-> FileContent(fs, v.loc)]

\* restore_from_checkpoint without its `except Exception` clause
restore_from_checkpoint_no_catch_all(session_id, checkpoint_id, fs, io) ==
    LET r == restore_try(session_id, checkpoint_id, fs, io)
    IN  [ret |-> IF r.ret = "ValueError" THEN "False" ELSE r.ret,
         fs |-> [fs EXCEPT !.work = r.work]]

\* a restore_from_checkpoint that reports the restore without copying
restore_from_checkpoint_no_copy(session_id, checkpoint_id, fs, io) ==
    LET r == restore_try(session_id, checkpoint_id, fs, io)
    IN  [ret |-> IF r.ret \in {"ValueError", "Exception"} THEN "False" ELSE r.ret,
         fs |-> fs]

\* restore_from_checkpoint: both except clauses return False
restore_from_checkpoint(session_id, checkpoint_id, fs, io) ==
    LET r == restore_try(session_id, checkpoint_id, fs, io)
    IN  [ret |-> IF r.ret \in {"ValueError", "Exception"} THEN "False" ELSE r.ret,
         fs |-> [fs EXCEPT !.work = r.work]]

\* rollback_node with the restore attempted even when there is no id
rollback_node_always_restores(s, fs, io) ==
    LET r == restore_from_checkpoint(s["session_id"], <<"a">>, fs, io)
    IN  [state |-> Put(s, "last_checkpoint_id", <<>>), fs |-> r.fs, restore |-> r.ret]

\* rollback_node: with no checkpoint id the state is returned as it came;
\* otherwise the restore is called and the id cleared whatever it returned.
\* An exception raised by the restore would leave the node with it.
rollback_node(s, fs, io) ==
    LET cid == GetOr(s, "last_checkpoint_id", <<>>)
        r == restore_from_checkpoint(s["session_id"], cid, fs, io)
    IN  IF ~TruthyStr(cid) THEN [state |-> s, fs |-> fs, restore |-> "skipped"]
        ELSE IF r.ret \in {"True", "False"}
        THEN [state |-> Put(s, "last_checkpoint_id", <<>>), fs |-> r.fs, restore |-> r.ret]
        ELSE [state |-> s, fs |-> r.fs, restore |-> r.ret]

\* the classes the error classifier sorts last_error into
ErrorTypes == {"syntax", "encoding", "asset", "structural", "unknown"}

\* what the handler chosen for the error type reports
HandlerOutcome(error_type) ==
    IF error_type = "unknown" THEN "Unknown error - no fix applied" ELSE "fix applied"

\* the keys error_handler_node writes
HandlerKeys == {"retry_count", "status", "error_type", "handler_outcome"}

\* error_handler_node: classify the error, restore the checkpoint when the
\* state names one, run the handler of the error type, count the retry and
\* set the status; every other key is returned as it came
error_handler_node(s, fs, io, error_type) ==
    LET cid == GetOr(s, "last_checkpoint_id", <<>>)
        r == restore_from_checkpoint(s["session_id"], cid, fs, io)
        out == Put(Put(Put(Put(s, "error_type", error_type),
                           "handler_outcome", HandlerOutcome(error_type)),
                       "retry_count", GetOr(s, "retry_count", 0) + 1),
                   "status", "error_handling")
    IN  IF ~TruthyStr(cid) THEN [state |-> out, fs |-> fs, restore |-> "skipped"]
        ELSE [state |-> out, fs |-> r.fs, restore |-> r.ret]

----------------------------------------------------------------------------
(* backend/utils/session_manager.py: the session directories on disk *)

SESSION_SUBDIRS == {"inputs", "assets", "checkpoints", "logs"}

\* the session ids that are well-formed UUIDs
Uuids == {sid \in SessionIds : IsUuid(sid)}

\* a directory tree: whether its root exists, and the sub-directories in it
NoDir == [exists |-> FALSE, subs |-> {}]
CompleteTree == [exists |-> TRUE, subs |-> SESSION_SUBDIRS]
OldArchive == [exists |-> TRUE, subs |-> {"logs"}]

\* `for sub in SESSION_SUBDIRS`
SubdirOrder == <<"inputs", "assets", "checkpoints", "logs">>

\* the orders in which os.scandir can list the entries of a session root:
\* arbitrary, but the same for every reader of the directory
ListingOrders == {SubdirOrder, <<"logs", "checkpoints", "assets", "inputs">>}

\* a filesystem with no session and no archive
NoSessions ==
    [live |-> [sid \in Uuids |-> NoDir],
     archive_parent |-> FALSE,
     archive |-> [sid \in Uuids |-> NoDir],
     order |-> SubdirOrder]

\* no SessionManager call is running
\* (i: index of the sub-directory create() makes next; todo: the entries
\* shutil.rmtree has listed and not yet removed; n: calls made so far)
IdleOp ==
    [name |-> "idle", id |-> "none", pc |-> "idle", i |-> 0, todo |-> <<>>,
     archive |-> FALSE, n |-> 0]

\* no second call
NoCall == [op |-> IdleOp, called |-> "none", arg |-> "none", result |-> "none"]

\* a filesystem with no checkpoint and no working file
NoCheckpoints == [work |-> "none", dir |-> <<>>]

----------------------------------------------------------------------------
(* Specification Spec: each routing function called on every DocumentState *)

Routers == {"route_after_tools", "route_after_validation", "route_after_error"}

Init ==
    /\ state \in AllStates
    /\ pc = "call"
    /\ called = "none"
    /\ arg = state
    /\ result = "none"
    /\ fixRoutes = 0
    /\ rollbacks = 0
    /\ cp = NoCheckpoints
    /\ sm = NoSessions
    /\ op = IdleOp
    /\ waiting = NoCall
    /\ issued = {}
    /\ restores = 0

CallRouteAfterTools ==
    /\ pc = "call"
    /\ called' = "route_after_tools"
    /\ arg' = state
    /\ result' = route_after_tools(state)
    /\ state' = route_after_tools_state(state)
    /\ UNCHANGED <<pc, fixRoutes>>
    /\ UNCHANGED disk

CallRouteAfterValidation ==
    /\ pc = "call"
    /\ called' = "route_after_validation"
    /\ arg' = state
    /\ result' = route_after_validation(state)
    /\ state' = route_after_validation_state(state)
    /\ UNCHANGED <<pc, fixRoutes>>
    /\ UNCHANGED disk

CallRouteAfterError ==
    /\ pc = "call"
    /\ called' = "route_after_error"
    /\ arg' = state
    /\ result' = route_after_error(state)
    /\ state' = route_after_error_state(state)
    /\ UNCHANGED <<pc, fixRoutes>>
    /\ UNCHANGED disk

CallShouldRetryConversion ==
    /\ pc = "call"
    /\ called' = "should_retry_conversion"
    /\ arg' = state
    /\ result' = should_retry_conversion(state)
    /\ state' = should_retry_conversion_state(state)
    /\ UNCHANGED <<pc, fixRoutes>>
    /\ UNCHANGED disk

Next ==
    \/ CallRouteAfterTools
    \/ CallRouteAfterValidation
    \/ CallRouteAfterError
    \/ CallShouldRetryConversion

Spec == Init /\ [][Next]_vars

----------------------------------------------------------------------------
(* Properties of the routing functions, checked under Spec *)

\* the key is absent or holds the empty string
EmptyAt(s, k) == ~Has(s, k) \/ s[k] = <<>>

\* the key is absent or holds nothing but whitespace
BlankAt(s, k) == ~Has(s, k) \/ strip(s[k]) = <<>>

\* the state with every absent router key set to its default
Default(k) ==
    IF k \in StrKeys THEN <<>> ELSE IF k \in BoolKeys THEN FALSE ELSE 0

WithDefaults(s) ==
    [k \in DOMAIN s \cup RouterKeys |-> IF Has(s, k) THEN s[k] ELSE Default(k)]

\* C1 as stated: whenever pending_question is non-empty, route_after_tools
\* returns "human_input", whatever the other fields hold.
C1_NonEmptyQuestionRoutesToHuman ==
    (called = "route_after_tools" /\ ~EmptyAt(arg, "pending_question"))
        => result = "human_input"

\* C1 amended: whenever pending_question is non-empty after stripping
\* surrounding whitespace, route_after_tools returns "human_input", whatever
\* the other fields hold.
C1_NonBlankQuestionRoutesToHuman ==
    (called = "route_after_tools" /\ ~BlankAt(arg, "pending_question"))
        => result = "human_input"

C1_Witness ==
    /\ called = "route_after_tools"
    /\ ~BlankAt(arg, "pending_question")
    /\ ~BlankAt(arg, "last_checkpoint_id")
    /\ GetTruthyBool(arg, "generation_complete")
    /\ result = "human_input"

\* C2 as stated: with an empty pending_question, route_after_tools returns
\* "validate" if last_checkpoint_id is non-empty, else "complete" if
\* generation_complete is truthy, else "agent"; and it returns "agent" only
\* when all three fields are empty/false.
C2_EmptyQuestionPriorityOrder ==
    called = "route_after_tools" =>
        /\ EmptyAt(arg, "pending_question") =>
              result = IF ~EmptyAt(arg, "last_checkpoint_id") THEN "validate"
                       ELSE IF GetTruthyBool(arg, "generation_complete")
                            THEN "complete"
                       ELSE "agent"
        /\ result = "agent" =>
              /\ EmptyAt(arg, "pending_question")
              /\ EmptyAt(arg, "last_checkpoint_id")
              /\ ~GetTruthyBool(arg, "generation_complete")

\* C2 amended: with a blank (empty or whitespace-only) pending_question,
\* route_after_tools returns "validate" if last_checkpoint_id is non-blank,
\* else "complete" if generation_complete is truthy, else "agent"; and it
\* returns "agent" only when both strings are blank and generation_complete
\* is false.
C2_BlankQuestionPriorityOrder ==
    called = "route_after_tools" =>
        /\ BlankAt(arg, "pending_question") =>
              result = IF ~BlankAt(arg, "last_checkpoint_id") THEN "validate"
                       ELSE IF GetTruthyBool(arg, "generation_complete")
                            THEN "complete"
                       ELSE "agent"
        /\ result = "agent" =>
              /\ BlankAt(arg, "pending_question")
              /\ BlankAt(arg, "last_checkpoint_id")
              /\ ~GetTruthyBool(arg, "generation_complete")

C2_Witness ==
    /\ called = "route_after_tools"
    /\ Has(arg, "pending_question") /\ arg["pending_question"] = <<>>
    /\ ~BlankAt(arg, "last_checkpoint_id")
    /\ GetTruthyBool(arg, "generation_complete")
    /\ result = "validate"

\* C3: whenever validation_passed is true, route_after_validation returns
\* "checkpoint", also when fix_attempts is at or beyond the ceiling.
C3_PassedRoutesToCheckpoint ==
    (called = "route_after_validation" /\ GetTruthyBool(arg, "validation_passed"))
        => result = "checkpoint"

C3_Witness ==
    /\ called = "route_after_validation"
    /\ GetTruthyBool(arg, "validation_passed")
    /\ Has(arg, "fix_attempts") /\ arg["fix_attempts"] > 3
    /\ result = "checkpoint"

\* C4: whenever validation_passed is false, route_after_validation returns
\* "agent" for fix_attempts 0, 1 or 2 and "complete" for 3 or more.
C4_FailedRoutesByFixAttempts ==
    ( /\ called = "route_after_validation"
      /\ Has(arg, "validation_passed") /\ ~arg["validation_passed"]
      /\ Has(arg, "fix_attempts") )
        => result = IF arg["fix_attempts"] \in {0, 1, 2} THEN "agent"
                    ELSE "complete"

C4_Witness ==
    /\ called = "route_after_validation"
    /\ Has(arg, "validation_passed") /\ ~arg["validation_passed"]
    /\ Has(arg, "fix_attempts") /\ arg["fix_attempts"] = 3
    /\ result = "complete"

\* C5 as stated: route_after_error returns "rollback" exactly when
\* last_checkpoint_id is non-empty and retry_count < 3, and "complete" in
\* every other state.
C5_RollbackIffNonEmptyCheckpoint ==
    called = "route_after_error" =>
        result = IF /\ ~EmptyAt(arg, "last_checkpoint_id")
                    /\ GetOr(arg, "retry_count", 0) < 3
                 THEN "rollback"
                 ELSE "complete"

\* C5 amended: route_after_error returns "rollback" exactly when
\* last_checkpoint_id is non-blank (non-empty after stripping whitespace)
\* and retry_count < 3, and "complete" in every other state.
C5_RollbackIffNonBlankCheckpoint ==
    called = "route_after_error" =>
        result = IF /\ ~BlankAt(arg, "last_checkpoint_id")
                    /\ GetOr(arg, "retry_count", 0) < 3
                 THEN "rollback"
                 ELSE "complete"

C5_Witness ==
    /\ called = "route_after_error"
    /\ ~BlankAt(arg, "last_checkpoint_id")
    /\ Has(arg, "retry_count") /\ arg["retry_count"] = 2
    /\ result = "rollback"

\* C6: on a state that lacks any subset of the keys the routers read, the
\* three routers raise nothing and return what they return on the state
\* with each absent key set to its default ("", 0, false).
C6_AbsentKeysActAsDefaults ==
    /\ called = "route_after_tools" =>
          result # "KeyError" /\ result = route_after_tools(WithDefaults(arg))
    /\ called = "route_after_validation" =>
          result # "KeyError" /\ result = route_after_validation(WithDefaults(arg))
    /\ called = "route_after_error" =>
          result # "KeyError" /\ result = route_after_error(WithDefaults(arg))

C6_Witness ==
    /\ called = "route_after_tools"
    /\ DOMAIN arg = {"validation_passed", "retry_count"}
    /\ result = "agent"

C8_RetryBelowCeiling ==
    called = "should_retry_conversion" =>
        /\ Has(arg, "retry_count") =>
              result = IF arg["retry_count"] < 3 THEN "retry" ELSE "fail"
        /\ ~Has(arg, "retry_count") => result = "retry"

C8_Witness ==
    /\ called = "should_retry_conversion"
    /\ Has(arg, "retry_count") /\ arg["retry_count"] = 3
    /\ result = "fail"

----------------------------------------------------------------------------
(* Specification RunSpec: one run of the workflow graph.                   *)
(* The nodes live in backend/graph_nodes.py and the full graph wiring in   *)
(* a later backend/graph.py; the routers and build_initial_state are       *)
(* backend/routing.py and backend/state.py.                                *)

\* build_initial_state(session_id, input_files), the keys the core reads
build_initial_state ==
    [k \in {"session_id", "retry_count", "last_checkpoint_id", "pending_question",
            "status"} |->
        IF k = "retry_count" THEN 0
        ELSE IF k = "status" THEN "scanning_assets"
        ELSE IF k = "session_id" THEN "uuid-1"
        ELSE <<>>]

\* the session's files when the run starts: a working file, one checkpoint
\* on disk
RunCheckpoints == [work |-> "w", dir |-> (<<"a">> :> [kind |-> "file", data |-> "c1"])]

\* what create_checkpoint returns: a basename (no whitespace), or "" when
\* the working file does not exist
CheckpointIds == {s \in Strings : \A i \in 1..Len(s) : ~IsSpace(s[i])}

RunInit ==
    /\ state = build_initial_state
    /\ pc = "agent"
    /\ called = "none"
    /\ arg = state
    /\ result = "none"
    /\ fixRoutes = 0
    /\ rollbacks = 0
    /\ cp = RunCheckpoints
    /\ sm = NoSessions
    /\ op = IdleOp
    /\ waiting = NoCall
    /\ issued = {}
    /\ restores = 0

\* the agent (an opaque LLM call) hands over to the tools node
AgentNode ==
    /\ pc = "agent"
    /\ pc' = "tools"
    /\ UNCHANGED <<state, called, arg, result, fixRoutes>>
    /\ UNCHANGED disk

\* a node fails: the error path can interrupt any working node
NodeRaises ==
    /\ pc \in {"agent", "tools", "validate", "checkpoint"}
    /\ pc' = "error_handler"
    /\ restores' = 0
    /\ UNCHANGED <<state, called, arg, result, fixRoutes>>
    /\ UNCHANGED <<rollbacks, cp, sm, op, waiting, issued>>

\* the tools node updates pending_question, last_checkpoint_id and
\* generation_complete
ToolsNode ==
    /\ pc = "tools"
    /\ \E q \in Strings, c \in CheckpointIds, g \in BOOLEAN :
          state' = Put(Put(Put(state, "pending_question", q),
                           "last_checkpoint_id", c),
                       "generation_complete", g)
    /\ pc' = "route_tools"
    /\ UNCHANGED <<called, arg, result, fixRoutes>>
    /\ UNCHANGED disk

RouteAfterToolsEdge ==
    /\ pc = "route_tools"
    /\ called' = "route_after_tools"
    /\ arg' = state
    /\ result' = route_after_tools(state)
    /\ state' = route_after_tools_state(state)
    /\ pc' = result'
    /\ UNCHANGED fixRoutes
    /\ UNCHANGED disk

\* the user answers the pending question
HumanInputNode ==
    /\ pc = "human_input"
    /\ state' = Put(state, "pending_question", <<>>)
    /\ pc' = "agent"
    /\ UNCHANGED <<called, arg, result, fixRoutes>>
    /\ UNCHANGED disk

\* validate_md_node: the linter's verdict on the working file
ValidateMd(passed) ==
    /\ pc = "validate"
    /\ state' = Put(Put(state, "validation_passed", passed), "status", "validating")
    /\ pc' = "increment_fix_attempts"
    /\ UNCHANGED <<called, arg, result, fixRoutes>>
    /\ UNCHANGED disk

ValidateMdNode == \E passed \in BOOLEAN : ValidateMd(passed)

\* increment_fix_attempts: one more fix attempt after a failed validation
IncrementFixAttemptsNode ==
    /\ pc = "increment_fix_attempts"
    /\ GetOr(state, "fix_attempts", 0) <= MaxCount
    /\ state' = IF ~GetTruthyBool(state, "validation_passed")
                THEN Put(state, "fix_attempts", GetOr(state, "fix_attempts", 0) + 1)
                ELSE state
    /\ pc' = "route_validation"
    /\ UNCHANGED <<called, arg, result, fixRoutes>>
    /\ UNCHANGED disk

RouteAfterValidationEdge ==
    /\ pc = "route_validation"
    /\ called' = "route_after_validation"
    /\ arg' = state
    /\ result' = route_after_validation(state)
    /\ state' = route_after_validation_state(state)
    /\ pc' = result'
    /\ fixRoutes' = IF result' = "agent" THEN fixRoutes + 1 ELSE fixRoutes
    /\ UNCHANGED disk

\* checkpoint_node: snapshot the working file, record the new id
CheckpointNode ==
    /\ pc = "checkpoint"
    /\ \E c \in CheckpointIds : state' = Put(state, "last_checkpoint_id", c)
    /\ pc' = "agent"
    /\ UNCHANGED <<called, arg, result, fixRoutes>>
    /\ UNCHANGED disk

\* error_handler_node: classify, restore the checkpoint the state names,
\* count the retry, set the status
ErrorHandlerNode ==
    /\ pc = "error_handler"
    /\ GetOr(state, "retry_count", 0) <= MaxCount
    /\ \E io \in IoOutcomes, error_type \in ErrorTypes :
          LET r == error_handler_node(state, cp, io, error_type)
          IN  /\ called' = "error_handler_node"
              /\ arg' = [state |-> state, cp |-> cp, io |-> io]
              /\ result' = r.restore
              /\ state' = r.state
              /\ cp' = r.fs
              /\ restores' = IF r.restore = "True" THEN restores + 1 ELSE restores
    /\ pc' = "route_error"
    /\ UNCHANGED <<fixRoutes, rollbacks, sm, op, waiting, issued>>

RouteAfterErrorEdge ==
    /\ pc = "route_error"
    /\ called' = "route_after_error"
    /\ arg' = state
    /\ result' = route_after_error(state)
    /\ state' = route_after_error_state(state)
    /\ pc' = result'
    /\ UNCHANGED fixRoutes
    /\ UNCHANGED disk

\* rollback_node: restore the checkpoint and clear its id; nothing to do
\* when there is none
RollbackNode ==
    /\ pc = "rollback"
    /\ rollbacks <= MaxCount
    /\ \E io \in IoOutcomes :
          LET r == rollback_node(state, cp, io)
          IN  /\ called' = "rollback_node"
              /\ arg' = [state |-> state, cp |-> cp, io |-> io]
              /\ result' = r.restore
              /\ state' = r.state
              /\ cp' = r.fs
              /\ pc' = IF r.restore \in {"ValueError", "Exception"}
                        THEN "error_handler" ELSE "agent"
              /\ restores' = IF r.restore = "True" THEN restores + 1 ELSE restores
    /\ rollbacks' = rollbacks + 1
    /\ UNCHANGED <<fixRoutes, sm, op, waiting, issued>>

RunNext ==
    \/ AgentNode
    \/ NodeRaises
    \/ ToolsNode
    \/ RouteAfterToolsEdge
    \/ HumanInputNode
    \/ ValidateMdNode
    \/ IncrementFixAttemptsNode
    \/ RouteAfterValidationEdge
    \/ CheckpointNode
    \/ ErrorHandlerNode
    \/ RouteAfterErrorEdge
    \/ RollbackNode

RunSpec == RunInit /\ [][RunNext]_vars

\* C9: in every reachable state of a run, fix_attempts and retry_count
\* exceed their ceilings (3) by at most one.
C9_CountersWithinCeilingPlusOne ==
    /\ GetOr(state, "fix_attempts", 0) <= 3 + 1
    /\ GetOr(state, "retry_count", 0) <= 3 + 1

C9_Witness ==
    /\ pc = "complete"
    /\ called = "route_after_validation"
    /\ GetOr(state, "fix_attempts", 0) = 3
    /\ GetOr(state, "retry_count", 0) = 2

----------------------------------------------------------------------------
(* Specification FixLoopSpec: the fix loop when every validation fails *)

FixInit ==
    /\ state \in {s \in AllStates :
                    /\ GetOr(s, "fix_attempts", 0) = 0
                    /\ ~Has(s, "pending_question")
                    /\ ~Has(s, "generation_complete")}
    /\ pc = "validate"
    /\ called = "none"
    /\ arg = state
    /\ result = "none"
    /\ fixRoutes = 0
    /\ rollbacks = 0
    /\ cp = NoCheckpoints
    /\ sm = NoSessions
    /\ op = IdleOp
    /\ waiting = NoCall
    /\ issued = {}
    /\ restores = 0

\* the agent's fix leads back to validation of the same chapter
FixRetry ==
    /\ pc = "agent"
    /\ pc' = "validate"
    /\ UNCHANGED <<state, called, arg, result, fixRoutes>>
    /\ UNCHANGED disk

FixNext ==
    \/ ValidateMd(FALSE)
    \/ IncrementFixAttemptsNode
    \/ RouteAfterValidationEdge
    \/ FixRetry

\* the graph executor runs the next node whenever there is one
FixLoopSpec == FixInit /\ [][FixNext]_vars /\ WF_vars(FixNext)

\* C10: from fix_attempts = 0, with every validation failing, the cycle
\* validate -> increment fix_attempts -> route_after_validation returns
\* "agent" at most 3 times and then "complete": the loop ends.
C10_FixLoopTerminates ==
    /\ [](fixRoutes <= 3)
    /\ <>(pc = "complete" /\ called = "route_after_validation" /\ result = "complete")

C10_Witness ==
    /\ pc = "complete"
    /\ result = "complete"
    /\ fixRoutes = 2
    /\ GetOr(state, "fix_attempts", 0) = 3

----------------------------------------------------------------------------
(* Specification ErrLoopSpec: the error loop when every generation step    *)
(* ends in an error                                                        *)

ErrInit ==
    /\ state \in {Put(s, "session_id", "uuid-1") :
                    s \in {x \in AllStates :
                             /\ GetOr(x, "retry_count", 0) = 0
                             /\ DOMAIN x \subseteq {"retry_count", "last_checkpoint_id"}}}
    /\ pc = "agent"
    /\ called = "none"
    /\ arg = state
    /\ result = "none"
    /\ fixRoutes = 0
    /\ rollbacks = 0
    /\ cp = RunCheckpoints
    /\ sm = NoSessions
    /\ op = IdleOp
    /\ waiting = NoCall
    /\ issued = {}
    /\ restores = 0

\* a generation step that ends in an error; it may have recorded a
\* checkpoint before it failed
GenerationFails ==
    /\ pc = "agent"
    /\ \/ state' = state
       \/ \E c \in CheckpointIds : state' = Put(state, "last_checkpoint_id", c)
    /\ pc' = "error_handler"
    /\ restores' = 0
    /\ UNCHANGED <<called, arg, result, fixRoutes>>
    /\ UNCHANGED <<rollbacks, cp, sm, op, waiting, issued>>

ErrNext ==
    \/ GenerationFails
    \/ ErrorHandlerNode
    \/ RouteAfterErrorEdge
    \/ RollbackNode

\* the graph executor runs the next node whenever there is one
ErrLoopSpec == ErrInit /\ [][ErrNext]_vars /\ WF_vars(ErrNext)

\* C11: when every generation step ends in an error, the cycle
\* error_handler_node -> route_after_error -> rollback -> agent reaches
\* "complete", and rollback_node runs at most 3 times in the run.
C11_ErrorLoopTerminates ==
    /\ [](rollbacks <= 3)
    /\ <>(pc = "complete" /\ called = "route_after_error" /\ result = "complete")

C11_Witness ==
    /\ pc = "complete"
    /\ result = "complete"
    /\ rollbacks = 2
    /\ GetOr(state, "retry_count", 0) = 3

----------------------------------------------------------------------------
(* Specification CkptSpec: restore_from_checkpoint and rollback_node       *)
(* called on every session id, checkpoint id and checkpoints directory     *)

OptId == {{}} \cup {{c} : c \in Ids}

CkptCallStates ==
    {MkState(o) : o \in [session_id : {{sid} : sid \in SessionIds},
                         last_checkpoint_id : OptId]}

CkptInit ==
    /\ state \in CkptCallStates
    /\ cp \in CpStates
    /\ pc = "call"
    /\ called = "none"
    /\ arg = [state |-> state, cp |-> cp, io |-> "ok"]
    /\ result = "none"
    /\ fixRoutes = 0
    /\ rollbacks = 0
    /\ sm = NoSessions
    /\ op = IdleOp
    /\ waiting = NoCall
    /\ issued = {}
    /\ restores = 0

\* restore_from_checkpoint(state["session_id"], state["last_checkpoint_id"])
CallRestoreFromCheckpoint ==
    /\ pc = "call"
    /\ Has(state, "last_checkpoint_id")
    /\ \E io \in IoOutcomes :
          LET r == restore_from_checkpoint(state["session_id"],
                                           state["last_checkpoint_id"], cp, io)
          IN  /\ called' = "restore_from_checkpoint"
              /\ arg' = [state |-> state, cp |-> cp, io |-> io]
              /\ result' = r.ret
              /\ cp' = r.fs
    /\ UNCHANGED <<state, pc, fixRoutes, rollbacks, sm, op, waiting, issued, restores>>

\* rollback_node(state)
CallRollbackNode ==
    /\ pc = "call"
    /\ \E io \in IoOutcomes :
          LET r == rollback_node(state, cp, io)
          IN  /\ called' = "rollback_node"
              /\ arg' = [state |-> state, cp |-> cp, io |-> io]
              /\ result' = r.restore
              /\ state' = r.state
              /\ cp' = r.fs
    /\ UNCHANGED <<pc, fixRoutes, rollbacks, sm, op, waiting, issued, restores>>

CkptNext ==
    \/ CallRestoreFromCheckpoint
    \/ CallRollbackNode

CkptSpec == CkptInit /\ [][CkptNext]_vars

\* the checkpoint id the last call was given, and where it resolves
ArgId == GetOr(arg.state, "last_checkpoint_id", <<>>)
ArgLoc == Resolve(arg.cp, strip(ArgId))

C13_RollbackNoOpWithoutCheckpoint ==
    (called = "rollback_node" /\ ~TruthyStr(ArgId)) =>
        /\ result = "skipped"
        /\ cp = arg.cp
        /\ state = arg.state

C13_Witness ==
    /\ called = "rollback_node"
    /\ Has(arg.state, "last_checkpoint_id")
    /\ ArgId = <<>>
    /\ arg.cp.work = "w"
    /\ <<"a">> \in DOMAIN arg.cp.dir
    /\ result = "skipped"

\* C14: for a checkpoint id containing "/", "\\" or "..",
\* restore_from_checkpoint returns False and the working file and every
\* checkpoint file are as before the call.
C14_SeparatorsAndDotDotRejected ==
    (/\ called = "restore_from_checkpoint"
     /\ (Contains(ArgId, "/") \/ Contains(ArgId, "\\") \/ ContainsDotDot(ArgId))) =>
        /\ result = "False"
        /\ cp = arg.cp

C14_Witness ==
    /\ called = "restore_from_checkpoint"
    /\ ArgId = <<"a", "\\">>
    /\ ArgId \in DOMAIN arg.cp.dir
    /\ arg.cp.dir[ArgId].kind = "file"
    /\ IsUuid(arg.state["session_id"])
    /\ arg.io = "ok"
    /\ result = "False"

\* C15: restore_from_checkpoint never raises: it returns True or False, and
\* False for an empty or invalid checkpoint id, for an invalid session id,
\* for a checkpoint file that does not exist (the working file then being
\* unchanged) and for an I/O error during the copy.
C15_RestoreNeverRaises ==
    called = "restore_from_checkpoint" =>
        /\ result \in {"True", "False"}
        /\ (\/ strip(ArgId) = <<>>
            \/ Contains(ArgId, "/") \/ Contains(ArgId, "\\") \/ ContainsDotDot(ArgId))
              => result = "False"
        /\ ~IsUuid(arg.state["session_id"]) => result = "False"
        /\ ~PathExists(arg.cp, ArgLoc) => (result = "False" /\ cp = arg.cp)
        /\ arg.io # "ok" => result = "False"

C15_Witness ==
    /\ called = "restore_from_checkpoint"
    /\ IsUuid(arg.state["session_id"])
    /\ ArgId = <<"a">>
    /\ arg.io = "fail_partial"
    /\ arg.cp.work = "w"
    /\ cp.work = "partial"
    /\ result = "False"

\* C16 as stated: restore_from_checkpoint copies over the working file only
\* if the id resolves strictly inside the session's checkpoints directory,
\* and returns False for an id resolving anywhere else.
C16_CopyOnlyFromCheckpointsDir ==
    called = "restore_from_checkpoint" =>
        /\ (result = "True" \/ cp # arg.cp) => InsideCheckpointsDir(ArgLoc)
        /\ ~InsideCheckpointsDir(ArgLoc) => result = "False"

\* C16: restore_from_checkpoint copies over the working file only if the id
\* resolves inside the session root; for an id resolving outside the
\* session root it returns False and leaves the files as they were.
C16_CopyOnlyFromSessionRoot ==
    called = "restore_from_checkpoint" =>
        /\ (result = "True" \/ cp # arg.cp) => IsRelativeToSession(ArgLoc)
        /\ ~IsRelativeToSession(ArgLoc) => (result = "False" /\ cp = arg.cp)

C16_Witness ==
    /\ called = "restore_from_checkpoint"
    /\ ArgLoc.area = "inputs_file"
    /\ result = "True"
    /\ arg.cp.work = "w"
    /\ cp.work = "in"

\* C32: when the session id and the checkpoint id are valid, the id names
\* an existing file (not a directory, not the working file itself) and the
\* copy meets no I/O error, restore_from_checkpoint returns True, the
\* working file temp_output.md then has exactly the checkpoint's content,
\* and the checkpoint and every other checkpoint are as they were
C32_RestoreCopiesCheckpoint ==
    (/\ called = "restore_from_checkpoint"
     /\ IsUuid(arg.state["session_id"])
     /\ ~validate_checkpoint_id(arg.cp, ArgId).raised
     /\ PathExists(arg.cp, ArgLoc)
     /\ ~IsDirectory(ArgLoc)
     /\ ArgLoc.area # "temp_output"
     /\ arg.io = "ok") =>
        /\ result = "True"
        /\ cp.work = FileContent(arg.cp, ArgLoc)
        /\ cp.dir = arg.cp.dir

C32_Witness ==
    /\ called = "restore_from_checkpoint"
    /\ IsUuid(arg.state["session_id"])
    /\ ArgId = <<"a">>
    /\ DOMAIN arg.cp.dir = DirNames
    /\ arg.cp.dir[<<"a">>] = [kind |-> "file", data |-> "c1"]
    /\ arg.cp.dir[<<"a", "\\">>] = [kind |-> "file", data |-> "c2"]
    /\ arg.cp.work = "w"
    /\ arg.io = "ok"
    /\ result = "True"
    /\ cp.work = "c1"
    /\ cp.dir = arg.cp.dir

----------------------------------------------------------------------------
(* Specification SessSpec: SessionManager.create() and cleanup(), one      *)
(* filesystem operation per step, so that every intermediate state of the  *)
(* disk is a state of the model                                            *)

MaxCalls == 2

\* SessionManager.exists(session_id) for a well-formed id
Exists(fs, sid) == fs.live[sid].exists

\* the entries of a session root as os.scandir lists them
Listing(fs, sid) == SelectSeq(fs.order, LAMBDA sub : sub \in fs.live[sid].subs)

\* a uuid.uuid4() that can give an id it gave before
uuid4_repeating(fs, used) == Uuids

\* str(uuid.uuid4()): a random UUID, one that no call was given before and
\* that names no directory on the disk
uuid4(fs, used) ==
    {sid \in Uuids : sid \notin used /\ ~fs.live[sid].exists /\ ~fs.archive[sid].exists}

\* the variables that no step of a SessionManager call changes
others == <<state, pc, fixRoutes, rollbacks, cp, waiting, restores>>

SmInitStates ==
    {fs \in [live : [Uuids -> {NoDir, CompleteTree}],
             archive_parent : BOOLEAN,
             archive : [Uuids -> {NoDir, OldArchive}],
             order : ListingOrders] :
        (\E sid \in Uuids : fs.archive[sid].exists) => fs.archive_parent}

SessInit ==
    /\ sm \in SmInitStates
    /\ op = IdleOp
    /\ waiting = NoCall
    /\ issued = {}
    /\ restores = 0
    /\ state = build_initial_state
    /\ pc = "call"
    /\ called = "none"
    /\ arg = [id |-> "none", archive |-> FALSE, sm |-> sm]
    /\ result = "none"
    /\ fixRoutes = 0
    /\ rollbacks = 0
    /\ cp = NoCheckpoints

\* the call returns or raises: r is "returned" or the exception's name
Finish(r) ==
    /\ op' = [IdleOp EXCEPT !.n = op.n]
    /\ result' = r

\* create(): session_id = str(uuid.uuid4())
CreateStart ==
    /\ op.name = "idle"
    /\ op.n + waiting.op.n < MaxCalls
    /\ \E sid \in uuid4(sm, issued) :
          /\ op' = [IdleOp EXCEPT !.name = "create", !.id = sid, !.pc = "mkdir_root",
                                  !.n = op.n + 1]
          /\ arg' = [id |-> sid, archive |-> FALSE, sm |-> sm]
          /\ issued' = issued \cup {sid}
    /\ called' = "create"
    /\ result' = "running"
    /\ UNCHANGED <<others, sm>>

\* base.mkdir(parents=True): FileExistsError when the root is there,
\* another OSError when the directory cannot be made
CreateMkdirRoot ==
    /\ op.name = "create" /\ op.pc = "mkdir_root"
    /\ \/ /\ ~sm.live[op.id].exists
          /\ sm' = [sm EXCEPT !.live[op.id] = [exists |-> TRUE, subs |-> {}]]
          /\ op' = [op EXCEPT !.pc = "mkdir_sub", !.i = 1]
       \/ /\ op' = [op EXCEPT !.pc = "handler"]
          /\ UNCHANGED sm
    /\ UNCHANGED <<others, called, arg, result, issued>>

\* (base / sub).mkdir(parents=False) for the next sub-directory, which
\* needs the root to be there; after the last one create() returns the id
CreateMkdirSub ==
    /\ op.name = "create" /\ op.pc = "mkdir_sub"
    /\ \/ /\ sm.live[op.id].exists
          /\ SubdirOrder[op.i] \notin sm.live[op.id].subs
          /\ sm' = [sm EXCEPT !.live[op.id].subs = @ \cup {SubdirOrder[op.i]}]
          /\ IF op.i = Len(SubdirOrder)
             THEN Finish("returned")
             ELSE op' = [op EXCEPT !.i = op.i + 1] /\ UNCHANGED result
       \/ /\ op' = [op EXCEPT !.pc = "handler"]
          /\ UNCHANGED <<sm, result>>
    /\ UNCHANGED <<others, called, arg, issued>>

\* except OSError: if base.exists(): shutil.rmtree(base)
CreateHandler ==
    /\ op.name = "create" /\ op.pc = "handler"
    /\ op' = [op EXCEPT !.pc = IF sm.live[op.id].exists THEN "rmtree" ELSE "raise"]
    /\ UNCHANGED <<others, called, arg, result, issued, sm>>

\* the `raise` that ends the except block of create()
CreateRaise ==
    /\ op.name = "create" /\ op.pc = "raise"
    /\ Finish("OSError")
    /\ UNCHANGED <<others, called, arg, issued, sm>>

\* a cleanup() without its `except FileNotFoundError`
RmtreeEnds_not_found_raised(outcome) ==
    IF op.name = "create" THEN op' = [op EXCEPT !.pc = "raise", !.todo = <<>>] /\ UNCHANGED result
    ELSE IF outcome \in {"OSError", "FileNotFoundError"} THEN Finish(outcome)
    ELSE Finish("returned")

\* shutil.rmtree(path) has ended: in create() an OSError from it is
\* passed over and the first error raised; in cleanup() FileNotFoundError
\* is passed over and any other OSError raised again
RmtreeEnds(outcome) ==
    IF op.name = "create" THEN op' = [op EXCEPT !.pc = "raise", !.todo = <<>>] /\ UNCHANGED result
    ELSE IF outcome = "OSError" THEN Finish("OSError")
    ELSE Finish("returned")

\* shutil.rmtree(path) opens the tree: os.lstat(path) raises
\* FileNotFoundError when the root is gone; otherwise the entries of the root
\* are listed once, entries = list(scandir_it)
RmtreeScan ==
    /\ op.pc = "rmtree"
    /\ \/ /\ ~sm.live[op.id].exists
          /\ RmtreeEnds("FileNotFoundError")
       \/ /\ sm.live[op.id].exists
          /\ op' = [op EXCEPT !.pc = "rmtree_walk", !.todo = Listing(sm, op.id)]
          /\ UNCHANGED result
       \/ /\ sm.live[op.id].exists
          /\ RmtreeEnds("OSError")
    /\ UNCHANGED <<others, called, arg, issued, sm>>

\* shutil.rmtree(path) removes the next listed entry, and the root after the
\* last one; an entry or a root that is no longer there raises
\* FileNotFoundError, a root that is not empty another OSError, and the
\* removal of what is there can fail (onerror raises)
RmtreeStep ==
    /\ op.pc = "rmtree_walk"
    /\ \/ /\ op.todo # <<>>
          /\ sm.live[op.id].exists /\ Head(op.todo) \in sm.live[op.id].subs
          /\ sm' = [sm EXCEPT !.live[op.id].subs = @ \ {Head(op.todo)}]
          /\ op' = [op EXCEPT !.todo = Tail(op.todo)]
          /\ UNCHANGED result
       \/ /\ op.todo # <<>>
          /\ ~(sm.live[op.id].exists /\ Head(op.todo) \in sm.live[op.id].subs)
          /\ RmtreeEnds("FileNotFoundError")
          /\ UNCHANGED sm
       \/ /\ op.todo = <<>>
          /\ sm.live[op.id].exists /\ sm.live[op.id].subs = {}
          /\ sm' = [sm EXCEPT !.live[op.id] = NoDir]
          /\ RmtreeEnds("removed")
       \/ /\ op.todo = <<>>
          /\ ~sm.live[op.id].exists
          /\ RmtreeEnds("FileNotFoundError")
          /\ UNCHANGED sm
       \/ /\ sm.live[op.id].exists
          /\ op.todo # <<>> => Head(op.todo) \in sm.live[op.id].subs
          /\ RmtreeEnds("OSError")
          /\ UNCHANGED sm
    /\ UNCHANGED <<others, called, arg, issued>>

\* cleanup(session_id, archive): path = self.get_path(session_id), which
\* raises ValueError for an id that is not a UUID
CleanupStart ==
    /\ op.name = "idle"
    /\ op.n + waiting.op.n < MaxCalls
    /\ \E sid \in SessionIds, archive \in BOOLEAN :
          /\ arg' = [id |-> sid, archive |-> archive, sm |-> sm]
          /\ IF IsUuid(sid)
             THEN /\ op' = [IdleOp EXCEPT !.name = "cleanup", !.id = sid, !.pc = "check",
                                          !.archive = archive, !.n = op.n + 1]
                  /\ result' = "running"
             ELSE /\ op' = [IdleOp EXCEPT !.n = op.n + 1]
                  /\ result' = "ValueError"
    /\ called' = "cleanup"
    /\ UNCHANGED <<others, issued, sm>>

\* cleanup() without its `if not path.is_dir(): return`
CleanupCheck_no_is_dir_test ==
    /\ op.name = "cleanup" /\ op.pc = "check"
    /\ op' = [op EXCEPT !.pc = IF op.archive THEN "archive_mkdir" ELSE "rmtree"]
    /\ UNCHANGED result
    /\ UNCHANGED <<others, called, arg, issued, sm>>

\* cleanup() that archives whatever its archive argument says
CleanupCheck_always_archive ==
    /\ op.name = "cleanup" /\ op.pc = "check"
    /\ IF ~sm.live[op.id].exists
       THEN Finish("returned")
       ELSE /\ op' = [op EXCEPT !.pc = "archive_mkdir"]
            /\ UNCHANGED result
    /\ UNCHANGED <<others, called, arg, issued, sm>>

\* if not path.is_dir(): return
CleanupCheck ==
    /\ op.name = "cleanup" /\ op.pc = "check"
    /\ IF ~sm.live[op.id].exists
       THEN Finish("returned")
       ELSE /\ op' = [op EXCEPT !.pc = IF op.archive THEN "archive_mkdir" ELSE "rmtree"]
            /\ UNCHANGED result
    /\ UNCHANGED <<others, called, arg, issued, sm>>

\* archive_parent.mkdir(parents=True, exist_ok=True); it can fail only when
\* the directory has to be made
ArchiveMkdir ==
    /\ op.name = "cleanup" /\ op.pc = "archive_mkdir"
    /\ \/ /\ sm' = [sm EXCEPT !.archive_parent = TRUE]
          /\ op' = [op EXCEPT !.pc = "archive_check"]
          /\ UNCHANGED result
       \/ /\ ~sm.archive_parent
          /\ Finish("OSError")
          /\ UNCHANGED sm
    /\ UNCHANGED <<others, called, arg, issued>>

\* cleanup() without its `if archive_path.exists(): raise FileExistsError`
ArchiveCheck_no_collision_test ==
    /\ op.name = "cleanup" /\ op.pc = "archive_check"
    /\ op' = [op EXCEPT !.pc = "move"]
    /\ UNCHANGED result
    /\ UNCHANGED <<others, called, arg, issued, sm>>

\* if archive_path.exists(): raise FileExistsError
ArchiveCheck ==
    /\ op.name = "cleanup" /\ op.pc = "archive_check"
    /\ IF sm.archive[op.id].exists
       THEN Finish("FileExistsError")
       ELSE op' = [op EXCEPT !.pc = "move"] /\ UNCHANGED result
    /\ UNCHANGED <<others, called, arg, issued, sm>>

\* a cleanup() that copies the session tree to the archive and leaves the
\* session where it was
ArchiveMove_keeps_source ==
    /\ op.name = "cleanup" /\ op.pc = "move"
    /\ \/ /\ sm.live[op.id].exists
          /\ sm' = [sm EXCEPT !.archive[op.id] = sm.live[op.id]]
          /\ Finish("returned")
       \/ /\ Finish("OSError")
          /\ UNCHANGED sm
    /\ UNCHANGED <<others, called, arg, issued>>

\* shutil.move(str(path), str(archive_path)): a rename; onto an existing
\* directory the tree is moved into it; an OSError (the source is gone, the
\* rename fails) is logged and raised
ArchiveMove ==
    /\ op.name = "cleanup" /\ op.pc = "move"
    /\ \/ /\ sm.live[op.id].exists
          /\ sm' = [sm EXCEPT
                       !.archive[op.id] =
                           IF sm.archive[op.id].exists
                           THEN [exists |-> TRUE, subs |-> @.subs \cup {"moved_session"}]
                           ELSE sm.live[op.id],
                       !.live[op.id] = NoDir]
          /\ Finish("returned")
       \/ /\ Finish("OSError")
          /\ UNCHANGED sm
    /\ UNCHANGED <<others, called, arg, issued>>

SessNext ==
    \/ CreateStart
    \/ CreateMkdirRoot
    \/ CreateMkdirSub
    \/ CreateHandler
    \/ CreateRaise
    \/ RmtreeScan
    \/ RmtreeStep
    \/ CleanupStart
    \/ CleanupCheck
    \/ ArchiveMkdir
    \/ ArchiveCheck
    \/ ArchiveMove

SessSpec == SessInit /\ [][SessNext]_vars

\* C17: when create(), for an id that had no directory, ends with the
\* error of a failed directory creation, the session root of that id does
\* not exist: no partly built session directory is left.
C17_FailedCreateLeavesNoRoot ==
    (called = "create" /\ result = "OSError" /\ ~Exists(arg.sm, arg.id)) =>
        ~Exists(sm, arg.id)

\* C18: while create() or cleanup() is running, exists(id) is True only
\* when the session tree is complete (the root and all four
\* sub-directories).
C18_ExistsOnlyWhenComplete ==
    (op.name # "idle" /\ Exists(sm, op.id)) => sm.live[op.id].subs = SESSION_SUBDIRS

\* C19: when the session directory is there and an archive already exists
\* for its id, cleanup(id, archive=True) raises FileExistsError, and the
\* session directory and the archive are as they were before the call.
C19_ArchiveCollisionRaises ==
    (/\ called = "cleanup" /\ arg.archive /\ IsUuid(arg.id)
     /\ Exists(arg.sm, arg.id)
     /\ arg.sm.archive[arg.id].exists) =>
        /\ result \in {"running", "FileExistsError"}
        /\ sm.live[arg.id] = arg.sm.live[arg.id]
        /\ sm.archive[arg.id] = arg.sm.archive[arg.id]

C19_Witness ==
    /\ called = "cleanup" /\ arg.archive /\ IsUuid(arg.id)
    /\ arg.sm.live[arg.id] = CompleteTree
    /\ arg.sm.archive[arg.id] = OldArchive
    /\ result = "FileExistsError"
    /\ op.name = "idle"

\* C20: cleanup(id, archive) on a session that is not there (never created,
\* archived or deleted) returns without raising and changes nothing on
\* disk, with archive True and False, however often it is called.
C20_CleanupOfAbsentSessionIsNoOp ==
    (called = "cleanup" /\ IsUuid(arg.id) /\ ~Exists(arg.sm, arg.id)) =>
        /\ result \in {"running", "returned"}
        /\ sm = arg.sm

C20_Witness ==
    /\ called = "cleanup" /\ arg.archive /\ IsUuid(arg.id)
    /\ ~Exists(arg.sm, arg.id)
    /\ arg.sm.archive[arg.id] = CompleteTree
    /\ result = "returned"
    /\ op.n = 2

\* C21: for the id create() returned, exists(id) is True right after create();
\* after cleanup(id, archive=False) of that session has returned, exists(id)
\* is False and no directory is left for the id, neither under the sessions
\* root nor under the archive root
C21_CreateThenDeleteLeavesNoTrace ==
    /\ (called = "create" /\ result = "returned") => Exists(sm, arg.id)
    /\ (/\ called = "cleanup" /\ result = "returned"
        /\ IsUuid(arg.id) /\ ~arg.archive
        /\ arg.id \in issued /\ Exists(arg.sm, arg.id))
       => /\ ~Exists(sm, arg.id)
          /\ sm.live[arg.id] = NoDir
          /\ sm.archive[arg.id] = NoDir

C21_Witness ==
    /\ called = "cleanup" /\ result = "returned"
    /\ IsUuid(arg.id) /\ ~arg.archive
    /\ arg.id \in issued
    /\ arg.sm.live[arg.id] = CompleteTree
    /\ sm.live[arg.id] = NoDir

\* C31: when the session directory is there and no archive exists for its
\* id, a cleanup(id, archive=True) that returns leaves no session root, has
\* the whole session tree (every sub-directory the session had) at
\* <archive>/<id>, and the archive root exists, made by the call when it was
\* missing; every other session and archive is as it was
C31_ArchiveMovesWholeTree ==
    (/\ called = "cleanup" /\ arg.archive /\ IsUuid(arg.id)
     /\ Exists(arg.sm, arg.id)
     /\ ~arg.sm.archive[arg.id].exists
     /\ result = "returned") =>
        /\ sm.live[arg.id] = NoDir
        /\ sm.archive[arg.id] = arg.sm.live[arg.id]
        /\ sm.archive_parent
        /\ \A sid \in Uuids \ {arg.id} :
              /\ sm.live[sid] = arg.sm.live[sid]
              /\ sm.archive[sid] = arg.sm.archive[sid]

C31_Witness ==
    /\ called = "cleanup" /\ arg.archive /\ IsUuid(arg.id)
    /\ arg.sm.live[arg.id] = CompleteTree
    /\ ~arg.sm.archive_parent
    /\ result = "returned"
    /\ sm.live[arg.id] = NoDir
    /\ sm.archive[arg.id] = CompleteTree
    /\ sm.archive_parent

----------------------------------------------------------------------------
(* Specification IdSpec: get_path, exists and cleanup called with any      *)
(* string as session id.  uuid.UUID is modelled on strings over a small    *)
(* alphabet, with UuidHexLen hexadecimal digits in place of 32.            *)

\* the characters of a session id: a hexadecimal digit, the hyphen, a sign
\* and the two characters that make a path leave its directory
SidChars == {"a", "-", "+", "/", "."}

HexDigits == {"a"}

\* hexadecimal digits in a UUID (32 in uuid.UUID)
UuidHexLen == 2

MaxSidLen == 3

Sids == UNION {[1..n -> SidChars] : n \in 0..MaxSidLen}

\* str.replace(c, '')
Remove(s, c) == SelectSeq(s, LAMBDA x : x # c)

\* int(hex, 16) does not raise: an optional sign, then hexadecimal digits
\* (int also takes surrounding white space, a 0x prefix and underscores
\* between digits, which SidChars leaves out)
IsInt16(s) ==
    LET digits == IF s # <<>> /\ Head(s) = "+" THEN Tail(s) ELSE s
    IN  /\ digits # <<>>
        /\ \A k \in 1..Len(digits) : digits[k] \in HexDigits

\* uuid.UUID(hex): hex = hex.replace('-', ''); ValueError unless
\* len(hex) == 32 and int(hex, 16) parses it
UUID(s) ==
    LET hex == Remove(s, "-")
    IN  IF Len(hex) # UuidHexLen THEN "ValueError"
        ELSE IF IsInt16(hex) THEN "UUID"
        ELSE "ValueError"

\* the strings that are written as a UUID: hexadecimal digits, UuidHexLen of
\* them, with single hyphens between digits only
SyntacticallyValidUuid(s) ==
    /\ \A k \in 1..Len(s) : s[k] \in HexDigits \cup {"-"}
    /\ Len(Remove(s, "-")) = UuidHexLen
    /\ \A k \in 1..Len(s) :
          s[k] = "-" => /\ k > 1 /\ k < Len(s)
                        /\ s[k - 1] # "-"

\* _validate_session_id(session_id): uuid.UUID(session_id), its ValueError
\* raised again as ValueError("Invalid session_id format")
validate_session_id(session_id) ==
    IF UUID(session_id) = "ValueError" THEN "ValueError" ELSE "None"

\* get_path(session_id): the path docs_base_path / sessions_dir / session_id,
\* given by its last part; fs says whether the filesystem was read or written
get_path(session_id) ==
    IF validate_session_id(session_id) = "ValueError"
    THEN [ret |-> "ValueError", path |-> <<>>, fs |-> FALSE]
    ELSE [ret |-> "path", path |-> session_id, fs |-> FALSE]

\* exists(session_id): self.get_path(session_id).is_dir()
exists(session_id, is_dir) ==
    LET p == get_path(session_id)
    IN  IF p.ret = "ValueError" THEN p
        ELSE [ret |-> IF is_dir THEN "True" ELSE "False", path |-> p.path, fs |-> TRUE]

\* what cleanup can end with once it has its path: see SessSpec
CleanupOutcomes == {"returned", "FileExistsError", "OSError"}

\* cleanup(session_id, archive): path = self.get_path(session_id), then
\* path.is_dir() and the archive or delete branch
cleanup(session_id, outcome) ==
    LET p == get_path(session_id)
    IN  IF p.ret = "ValueError" THEN p
        ELSE [ret |-> outcome, path |-> p.path, fs |-> TRUE]

\* a path docs_base_path / sessions_dir / name that is below sessions_dir
InsideSessionsRoot(name) ==
    /\ name # <<>>
    /\ \A k \in 1..Len(name) : name[k] # "/"
    /\ name \notin {<<".">>, <<".", ".">>}

IdInit ==
    /\ called = "none"
    /\ arg = [id |-> <<>>, archive |-> FALSE]
    /\ result = [ret |-> "none", path |-> <<>>, fs |-> FALSE]
    /\ state = build_initial_state
    /\ pc = "call"
    /\ fixRoutes = 0
    /\ rollbacks = 0
    /\ cp = NoCheckpoints
    /\ sm = NoSessions
    /\ op = IdleOp
    /\ waiting = NoCall
    /\ issued = {}
    /\ restores = 0

CallGetPath ==
    /\ \E sid \in Sids :
          /\ arg' = [id |-> sid, archive |-> FALSE]
          /\ result' = get_path(sid)
    /\ called' = "get_path"
    /\ UNCHANGED <<state, pc, fixRoutes, disk>>

CallExists ==
    /\ \E sid \in Sids, is_dir \in BOOLEAN :
          /\ arg' = [id |-> sid, archive |-> FALSE]
          /\ result' = exists(sid, is_dir)
    /\ called' = "exists"
    /\ UNCHANGED <<state, pc, fixRoutes, disk>>

CallCleanup ==
    /\ \E sid \in Sids, archive \in BOOLEAN, outcome \in CleanupOutcomes :
          /\ arg' = [id |-> sid, archive |-> archive]
          /\ result' = cleanup(sid, outcome)
    /\ called' = "cleanup"
    /\ UNCHANGED <<state, pc, fixRoutes, disk>>

IdNext ==
    \/ CallGetPath
    \/ CallExists
    \/ CallCleanup

IdSpec == IdInit /\ [][IdNext]_vars

\* C22: for every session id that is not written as a UUID, get_path, exists
\* and cleanup raise ValueError without reading or writing the filesystem,
\* and a path they do build lies below the sessions root
C22_InvalidIdRaisesValueError ==
    called \in {"get_path", "exists", "cleanup"} =>
        /\ ~SyntacticallyValidUuid(arg.id) => (result.ret = "ValueError" /\ ~result.fs)
        /\ result.ret # "ValueError" => InsideSessionsRoot(result.path)

----------------------------------------------------------------------------
(* Specification ConcSpec: two SessionManager calls at a time.  The calls *)
(* are those of SessSpec; between any two filesystem operations the other *)
(* call may run.                                                          *)

\* the running call is suspended and the other call goes on, or a new call
\* is made beside the one that has ended
Switch ==
    /\ called # "none" \/ waiting.called # "none"
    /\ waiting' = [op |-> op, called |-> called, arg |-> arg, result |-> result]
    /\ op' = waiting.op
    /\ called' = waiting.called
    /\ arg' = waiting.arg
    /\ result' = waiting.result
    /\ UNCHANGED <<state, pc, fixRoutes, rollbacks, cp, sm, issued, restores>>

ConcNext ==
    \/ SessNext
    \/ Switch

ConcSpec == SessInit /\ [][ConcNext]_vars

OtherDeleteReturned ==
    /\ waiting.called = "cleanup" /\ waiting.result = "returned"
    /\ waiting.arg.id = arg.id /\ ~waiting.arg.archive

----------------------------------------------------------------------------
(* Specification MergeSpec: the workflow state under the graph's merge of  *)
(* each node's return value: StateGraph(DocumentState) adds to the keys    *)
(* annotated with operator.add and overwrites the others.                  *)

\* entries of messages and missing_references
LogEntries == {"m1", "m2"}

MaxLogLen == 3

MaxUpdateLen == 1

\* operator.add replaced by "take the new value"
operator_add_overwrite(a, b) == b

\* operator.add on two lists
operator_add(a, b) == a \o b

\* the keys of DocumentState declared Annotated[list[str], operator.add]
ReducedKeys == {"missing_references", "messages"}

\* the graph's merge of a node's return value into the state
Merge(s, update) ==
    [k \in DOMAIN s \cup DOMAIN update |->
        IF k \notin DOMAIN update THEN s[k]
        ELSE IF k \in ReducedKeys /\ k \in DOMAIN s THEN operator_add(s[k], update[k])
        ELSE update[k]]

\* build_initial_state(session_id, input_files) with its two list keys
InitialLogState ==
    build_initial_state @@ [k \in ReducedKeys |-> <<>>]

\* scan_assets_node(state): {**state, "status": "complete"}
scan_assets_node(s) == Put(s, "status", "complete")

\* a is a prefix of b
IsPrefix(a, b) == Len(a) <= Len(b) /\ SubSeq(b, 1, Len(a)) = a

Logs == UNION {[1..n -> LogEntries] : n \in 0..MaxUpdateLen}

\* what a node can return: any subset of the keys status, messages and
\* missing_references
NodeUpdates ==
    {MkState(o) : o \in [status : {{}, {"processing"}, {"complete"}},
                         messages : {{}} \cup {{l} : l \in Logs},
                         missing_references : {{}} \cup {{l} : l \in Logs}]}

MergeInit ==
    /\ state = InitialLogState
    /\ pc = "scan_assets"
    /\ called = "none"
    /\ arg = [before |-> InitialLogState, update |-> InitialLogState]
    /\ result = "none"
    /\ fixRoutes = 0
    /\ rollbacks = 0
    /\ cp = NoCheckpoints
    /\ sm = NoSessions
    /\ op = IdleOp
    /\ waiting = NoCall
    /\ issued = {}
    /\ restores = 0

\* the merge of update fits the bound on the lists
Fits(update) ==
    \A k \in ReducedKeys : Len(Merge(state, update)[k]) <= MaxLogLen

\* the node of graph.py runs and the graph merges what it returns
ScanAssetsNode ==
    /\ Fits(scan_assets_node(state))
    /\ called' = "scan_assets_node"
    /\ arg' = [before |-> state, update |-> scan_assets_node(state)]
    /\ state' = Merge(state, scan_assets_node(state))
    /\ UNCHANGED <<pc, result, fixRoutes, disk>>

\* any other node runs and the graph merges what it returns
NodeStep ==
    /\ \E update \in NodeUpdates :
          /\ Fits(update)
          /\ arg' = [before |-> state, update |-> update]
          /\ state' = Merge(state, update)
    /\ called' = "node"
    /\ UNCHANGED <<pc, result, fixRoutes, disk>>

MergeNext ==
    \/ ScanAssetsNode
    \/ NodeStep

MergeSpec == MergeInit /\ [][MergeNext]_vars

\* C25: after every workflow step, messages and missing_references are the
\* value before the step with the step's update for that key appended (the
\* value before it when the step returned none): the old value is a prefix
\* of the new one, nothing is removed or overwritten
C25_LogsOnlyGrow ==
    called \in {"scan_assets_node", "node"} =>
        \A k \in ReducedKeys :
            /\ IsPrefix(arg.before[k], state[k])
            /\ state[k] = IF k \in DOMAIN arg.update
                          THEN arg.before[k] \o arg.update[k]
                          ELSE arg.before[k]

C25_Witness ==
    /\ called = "node"
    /\ arg.before["messages"] = <<"m1">>
    /\ "messages" \in DOMAIN arg.update
    /\ arg.update["messages"] = <<"m2">>
    /\ state["messages"] = <<"m1", "m2">>
    /\ "missing_references" \in DOMAIN arg.update
    /\ Len(state["missing_references"]) = 3

----------------------------------------------------------------------------
(* Specification EntrySpec: generate_document (backend/entry.py), the      *)
(* lifecycle validate -> create session -> copy -> invoke -> cleanup, run  *)
(* against the MockSessionManager of tests/e2e/test_entry_point.py, which  *)
(* records the sessions created and the cleanup calls.                     *)

MaxRuns == 2

MaxFiles == 2

\* MockSessionManager.__init__: no session created, no cleanup called
MockSessionManager == [sessions_created |-> <<>>, cleanup_called |-> <<>>]

\* MockSessionManager.create(): a new id, appended to _sessions_created
MockCreate(m) ==
    [m EXCEPT !.sessions_created = Append(@, Len(@) + 1)]

\* a cleanup that keeps no record of the call
MockCleanup_not_recorded(m, session_id, archive) == m

\* MockSessionManager.cleanup(session_id, archive): the call is appended to
\* _cleanup_called
MockCleanup(m, session_id, archive) ==
    [m EXCEPT !.cleanup_called = Append(@, [id |-> session_id, archive |-> archive])]

\* how workflow.invoke can end: the status of the state it returns
\* (missing_references: interrupted), or an exception
WorkflowOutcomes == {"complete", "failed", "missing_references", "raised"}

\* the archive argument generate_document gives cleanup: True after a
\* completed workflow, False after one that raised; for another outcome
\* either value
ArchiveFor(outcome) ==
    IF outcome = "complete" THEN {TRUE}
    ELSE IF outcome = "raised" THEN {FALSE}
    ELSE BOOLEAN

\* the cleanup calls recorded for a session
CleanupsOf(m, sid) ==
    SelectSeq(m.cleanup_called, LAMBDA c : c.id = sid)

\* no call of generate_document is running
NoRun == [valid |-> 0, invalid |-> 0, session_id |-> 0, outcome |-> "none", run |-> 0,
          created_before |-> 0]

EntryInit ==
    /\ pc = "idle"
    /\ sm = MockSessionManager
    /\ arg = NoRun
    /\ called = "none"
    /\ result = "none"
    /\ state = build_initial_state
    /\ fixRoutes = 0
    /\ rollbacks = 0
    /\ cp = NoCheckpoints
    /\ op = IdleOp
    /\ waiting = NoCall
    /\ issued = {}
    /\ restores = 0

\* generate_document(requested_paths, base_dir, session_manager, workflow):
\* the requested paths, so many of them valid files and so many not
GenerateDocument ==
    /\ pc = "idle"
    /\ arg.run < MaxRuns
    /\ \E valid \in 0..MaxFiles, invalid \in 0..1 :
          /\ valid + invalid >= 1
          /\ arg' = [NoRun EXCEPT !.valid = valid, !.invalid = invalid,
                                  !.run = arg.run + 1,
                                  !.created_before = Len(sm.sessions_created)]
    /\ called' = "generate_document"
    /\ result' = "running"
    /\ pc' = "validate"
    /\ UNCHANGED <<state, fixRoutes, rollbacks, cp, sm, op, waiting, issued, restores>>

\* the requested files are validated; with no valid file the validation
\* errors are returned and nothing else is done
ValidateFiles ==
    /\ pc = "validate"
    /\ IF arg.valid = 0
       THEN pc' = "idle" /\ result' = "validation_errors"
       ELSE pc' = "create" /\ UNCHANGED result
    /\ UNCHANGED <<state, called, arg, fixRoutes, rollbacks, cp, sm, op, waiting, issued, restores>>

\* session_id = session_manager.create()
CreateSession ==
    /\ pc = "create"
    /\ sm' = MockCreate(sm)
    /\ arg' = [arg EXCEPT !.session_id = Len(sm.sessions_created) + 1]
    /\ pc' = "copy"
    /\ UNCHANGED <<state, called, result, fixRoutes, rollbacks, cp, op, waiting, issued, restores>>

\* copy_validated_files_to_session, then build_initial_state
CopyFiles ==
    /\ pc = "copy"
    /\ state' = Put(build_initial_state, "input_files", arg.valid)
    /\ pc' = "invoke"
    /\ UNCHANGED <<called, arg, result, fixRoutes, rollbacks, cp, sm, op, waiting, issued, restores>>

\* workflow.invoke(initial_state) returns a state or raises
InvokeWorkflow ==
    /\ pc = "invoke"
    /\ \E outcome \in WorkflowOutcomes :
          /\ arg' = [arg EXCEPT !.outcome = outcome]
          /\ state' = IF outcome = "raised" THEN state ELSE Put(state, "status", outcome)
    /\ pc' = "cleanup"
    /\ UNCHANGED <<called, result, fixRoutes, rollbacks, cp, sm, op, waiting, issued, restores>>

\* session_manager.cleanup(session_id, archive=...), then the result is
\* returned
CleanupSession ==
    /\ pc = "cleanup"
    /\ \E archive \in ArchiveFor(arg.outcome) :
          sm' = MockCleanup(sm, arg.session_id, archive)
    /\ result' = IF arg.outcome = "complete" THEN "success" ELSE "failure"
    /\ pc' = "idle"
    /\ UNCHANGED <<state, called, arg, fixRoutes, rollbacks, cp, op, waiting, issued, restores>>

EntryNext ==
    \/ GenerateDocument
    \/ ValidateFiles
    \/ CreateSession
    \/ CopyFiles
    \/ InvokeWorkflow
    \/ CleanupSession

EntrySpec == EntryInit /\ [][EntryNext]_vars

----------------------------------------------------------------------------
(* Specification ScanSpec: scanner/ref_scanner.py, deduplicate_refs and    *)
(* scan_files on lists of references.  A Ref is its original text and the  *)
(* rest of its fields (type, resolved_path, status, source_file,           *)
(* line_number), taken together as meta.                                   *)

MaxRefs == 3

MaxPaths == 2

MaxRefsPerFile == 2

Refs == [original : {"o1", "o2"}, meta : {"m1", "m2"}]

RefLists(n) == UNION {[1..k -> Refs] : k \in 0..n}

\* a path given to scan_files: whether it is a regular file, and what
\* scan_file finds in it
ScanPaths == [is_file : BOOLEAN, refs : RefLists(MaxRefsPerFile)]

RECURSIVE deduplicate_loop(_, _, _)
\* for ref in refs: if ref.original not in seen: seen.add(ref.original);
\* result.append(ref)  (kept: result)
deduplicate_loop(refs, seen, kept) ==
    IF refs = <<>> THEN kept
    ELSE LET ref == Head(refs)
         IN  IF ref.original \notin seen
             THEN deduplicate_loop(Tail(refs), seen \cup {ref.original}, Append(kept, ref))
             ELSE deduplicate_loop(Tail(refs), seen, kept)

\* a deduplicate_refs that makes every reference replace the one kept for
\* its original text
deduplicate_refs_keep_last(refs) ==
    LET last(i) == \A j \in (i + 1)..Len(refs) : refs[j].original # refs[i].original
        firstOf(i) == CHOOSE j \in 1..i :
                          /\ refs[j].original = refs[i].original
                          /\ \A h \in 1..(j - 1) : refs[h].original # refs[i].original
        F[i \in 0..Len(refs)] ==
            IF i = 0 THEN <<>>
            ELSE IF firstOf(i) = i
                 THEN Append(F[i - 1],
                             refs[CHOOSE j \in i..Len(refs) :
                                      refs[j].original = refs[i].original /\ last(j)])
                 ELSE F[i - 1]
    IN  F[Len(refs)]

\* deduplicate_refs(refs)
deduplicate_refs(refs) == deduplicate_loop(refs, {}, <<>>)

RECURSIVE scan_files_loop(_, _)
\* for path in paths: if not path.is_file(): continue;
\* all_refs.extend(scan_file(path))
scan_files_loop(paths, all_refs) ==
    IF paths = <<>> THEN all_refs
    ELSE LET path == Head(paths)
         IN  IF ~path.is_file
             THEN scan_files_loop(Tail(paths), all_refs)
             ELSE scan_files_loop(Tail(paths), all_refs \o path.refs)

\* scan_files(paths)
scan_files(paths) == deduplicate_refs(scan_files_loop(paths, <<>>))

ScanInit ==
    /\ called = "none"
    /\ arg = <<>>
    /\ result = <<>>
    /\ state = build_initial_state
    /\ pc = "call"
    /\ fixRoutes = 0
    /\ rollbacks = 0
    /\ cp = NoCheckpoints
    /\ sm = NoSessions
    /\ op = IdleOp
    /\ waiting = NoCall
    /\ issued = {}
    /\ restores = 0

CallDeduplicateRefs ==
    /\ called = "none"
    /\ \E k \in 0..MaxRefs : \E refs \in [1..k -> Refs] :
          /\ arg' = refs
          /\ result' = deduplicate_refs(refs)
    /\ called' = "deduplicate_refs"
    /\ UNCHANGED <<state, pc, fixRoutes, disk>>

CallScanFiles ==
    /\ called = "none"
    /\ \E k \in 0..MaxPaths : \E paths \in [1..k -> ScanPaths] :
          /\ arg' = paths
          /\ result' = scan_files(paths)
    /\ called' = "scan_files"
    /\ UNCHANGED <<state, pc, fixRoutes, disk>>

ScanNext ==
    \/ CallDeduplicateRefs
    \/ CallScanFiles

ScanSpec == ScanInit /\ [][ScanNext]_vars

\* the index of the first reference of refs with the original text o
FirstIndex(refs, o) ==
    CHOOSE i \in 1..Len(refs) :
        /\ refs[i].original = o
        /\ \A j \in 1..(i - 1) : refs[j].original # o

\* out is refs cut down to the first occurrence of each original text, in
\* the order of refs
IsFirstOccurrences(out, refs) ==
    /\ \A a, b \in 1..Len(out) : a # b => out[a].original # out[b].original
    /\ {out[k].original : k \in 1..Len(out)} = {refs[i].original : i \in 1..Len(refs)}
    /\ \A k \in 1..Len(out) : out[k] = refs[FirstIndex(refs, out[k].original)]
    /\ \A a, b \in 1..Len(out) :
          a < b => FirstIndex(refs, out[a].original) < FirstIndex(refs, out[b].original)

\* the results of scan_file for the regular files among paths, one after
\* the other in the order of paths
PerFileResults(paths) ==
    LET F[k \in 0..Len(paths)] ==
            IF k = 0 THEN <<>>
            ELSE IF paths[k].is_file THEN F[k - 1] \o paths[k].refs ELSE F[k - 1]
    IN  F[Len(paths)]

\* C27: deduplicate_refs returns the first occurrence of each distinct
\* original text, in input order and with that occurrence's other fields:
\* no original text twice, every original text of the input once;
\* scan_files returns the same for the per-file results put together in
\* path order
C27_DeduplicateKeepsFirstOccurrences ==
    /\ called = "deduplicate_refs" => IsFirstOccurrences(result, arg)
    /\ called = "scan_files" => IsFirstOccurrences(result, PerFileResults(arg))

C27_Witness ==
    /\ called = "scan_files"
    /\ Len(arg) = 2
    /\ arg[1].is_file /\ arg[2].is_file
    /\ arg[1].refs = <<[original |-> "o1", meta |-> "m1"], [original |-> "o2", meta |-> "m1"]>>
    /\ arg[2].refs = <<[original |-> "o2", meta |-> "m2"], [original |-> "o1", meta |-> "m2"]>>
    /\ result = arg[1].refs

----------------------------------------------------------------------------
(* Specification AssetSpec: backend/utils/asset_handler.py.  A markdown    *)
(* content is the sequence of its pieces: an image reference               *)
(* ![alt](path "title"), with or without white space inside the            *)
(* parentheses, a link [text](path), a line ending, or other text.         *)

MaxContentLen == 3

\* image !\[alt\]( path "title" ) as IMAGE_MARKDOWN_PATTERN matches it:
\* title is "none", "t" (a title on one line) or "lf" / "crlf" (a title that
\* goes over a line ending of that kind)
Image(alt, path, title, spaced) ==
    [kind |-> "image", alt |-> alt, path |-> path, title |-> title, spaced |-> spaced]

\* a link [l](path), which IMAGE_MARKDOWN_PATTERN does not match
Link(path) == [kind |-> "link", alt |-> "l", path |-> path, title |-> "none", spaced |-> FALSE]

\* a line ending, "\n" (lf) or "\r\n" (crlf), and text that is neither a
\* line ending nor a reference: the bare words of a path
Piece(kind) == [kind |-> kind, alt |-> "", path |-> "", title |-> "none", spaced |-> FALSE]

\* f"./assets/{basename}"
AssetPath(basename) ==
    IF basename = "y.png" THEN "./assets/y.png"
    ELSE IF basename = "w.png" THEN "./assets/w.png"
    ELSE "./assets/a.md"

\* the index of the first piece of content equal to piece, 0 when none is
IndexOf(content, piece) ==
    IF \E i \in 1..Len(content) : content[i] = piece
    THEN CHOOSE i \in 1..Len(content) :
             content[i] = piece /\ \A j \in 1..(i - 1) : content[j] # piece
    ELSE 0

\* str.replace(old, new, 1)
ReplaceFirst(content, old, new) ==
    IF IndexOf(content, old) = 0 THEN content
    ELSE [content EXCEPT ![IndexOf(content, old)] = new]

RECURSIVE rewrite_matches(_, _, _, _)
\* for match in IMAGE_MARKDOWN_PATTERN.finditer(content): path_stripped is
\* the text between the parentheses without the white space around it,
\* path_only that text without a title; when path_only == original_path the
\* first f"{alt_part}({path_stripped})" in new_content becomes
\* f"{alt_part}(./assets/{basename})"
rewrite_matches(matches, new_content, original_path, basename) ==
    IF matches = <<>> THEN new_content
    ELSE LET match == Head(matches)
             old_syntax == Image(match.alt, match.path, match.title, FALSE)
             new_syntax == Image(match.alt, AssetPath(basename), "none", FALSE)
         IN  IF match.kind = "image" /\ match.path = original_path
             THEN rewrite_matches(Tail(matches),
                                  ReplaceFirst(new_content, old_syntax, new_syntax),
                                  original_path, basename)
             ELSE rewrite_matches(Tail(matches), new_content, original_path, basename)

\* rewrite_refs_in_content(content, original_path, basename)
rewrite_refs_in_content(content, original_path, basename) ==
    IF content = <<>> THEN content
    ELSE rewrite_matches(content, content, original_path, basename)

\* content.count(asset_path): the references of content with that path
CountPath(content, asset_path) ==
    Cardinality({i \in 1..Len(content) : content[i].path = asset_path})

\* the line endings of a content, each "lf" or "crlf", in order
LineEndings(content) ==
    LET ending(piece) == IF piece.kind \in {"lf", "crlf"} THEN <<piece.kind>>
                         ELSE IF piece.title \in {"lf", "crlf"} THEN <<piece.title>>
                         ELSE <<>>
        F[k \in 0..Len(content)] ==
            IF k = 0 THEN <<>> ELSE F[k - 1] \o ending(content[k])
    IN  F[Len(content)]

\* b"\r\n" in file_bytes
HasCrlf(content) == \E k \in 1..Len(LineEndings(content)) : LineEndings(content)[k] = "crlf"

\* every "\n" of content not in a "\r\n" written as newline
WithNewline(content, newline) ==
    [k \in 1..Len(content) |->
        IF content[k].kind = "lf" THEN [content[k] EXCEPT !.kind = newline]
        ELSE IF content[k].title = "lf" THEN [content[k] EXCEPT !.title = newline]
        ELSE content[k]]

\* Path.write_text(content, encoding="utf-8"): text mode, "\n" is written
\* as os.linesep
write_text(content, linesep) == WithNewline(content, linesep)

\* content.replace("\r\n", "\n").replace("\n", "\r\n"), then write_bytes
write_crlf(content) == WithNewline(content, "crlf")

RECURSIVE rewrite_refs_for_file(_, _, _, _)
\* for ref in refs_for_file: a ref that was copied is rewritten in content,
\* and the new occurrences of its asset path are added to rewrite_count
rewrite_refs_for_file(refs_for_file, copy_results, content, rewrite_count) ==
    IF refs_for_file = <<>> THEN [content |-> content, rewrite_count |-> rewrite_count]
    ELSE LET ref == Head(refs_for_file)
             original_path == ref.original_path
         IN  IF original_path \notin DOMAIN copy_results
             THEN rewrite_refs_for_file(Tail(refs_for_file), copy_results, content,
                                        rewrite_count)
             ELSE LET basename == copy_results[original_path]
                      new_content == rewrite_refs_in_content(content, original_path, basename)
                      asset_path == AssetPath(basename)
                  IN  IF new_content # content
                      THEN rewrite_refs_for_file(
                               Tail(refs_for_file), copy_results, new_content,
                               rewrite_count + CountPath(new_content, asset_path)
                                             - CountPath(content, asset_path))
                      ELSE rewrite_refs_for_file(Tail(refs_for_file), copy_results,
                                                 content, rewrite_count)

\* what rewrite_input_files leaves in one input file
rewrite_input_file(content, refs_for_file, copy_results, linesep) ==
    LET has_crlf == HasCrlf(content)
        r == rewrite_refs_for_file(refs_for_file, copy_results, content, 0)
    IN  IF r.rewrite_count = 0 THEN content
        ELSE IF has_crlf THEN write_crlf(r.content)
        ELSE write_text(r.content, linesep)

\* rewrite_input_files(session_path, found_image_refs, copy_results): the
\* input files afterwards (inputs: file name -> content)
rewrite_input_files(inputs, found_image_refs, copy_results, linesep) ==
    IF found_image_refs = <<>> \/ DOMAIN copy_results = {} THEN inputs
    ELSE [source_file \in DOMAIN inputs |->
            rewrite_input_file(
                inputs[source_file],
                SelectSeq(found_image_refs, LAMBDA ref : ref.source_file = source_file),
                copy_results, linesep)]

\* resolved.exists() for a resolved path, outside the session (ext) or in
\* its inputs
ResolvedExists(fs, resolved) ==
    IF resolved.area = "inputs" THEN resolved.name \in DOMAIN fs.inputs
    ELSE IF resolved.area = "ext2" THEN resolved.name \in DOMAIN fs.ext2
    ELSE resolved.name \in DOMAIN fs.ext

\* the bytes of the file at a resolved path
ResolvedData(fs, resolved) ==
    IF resolved.area = "inputs" THEN fs.inputs[resolved.name]
    ELSE IF resolved.area = "ext2" THEN fs.ext2[resolved.name]
    ELSE fs.ext[resolved.name]

\* how shutil.copy2(resolved, dest) ends for the file at a resolved path:
\* "ok", or an OSError before dest is opened ("fail_clean": the source
\* cannot be opened) or after dest was truncated ("fail_partial")
CopyOutcome(fs, resolved) ==
    IF "io" \in DOMAIN fs /\ resolved \in DOMAIN fs.io THEN fs.io[resolved] ELSE "ok"

RECURSIVE copy_found_images_first_wins(_, _, _, _)
\* a copy_found_images that leaves an asset that is already there
copy_found_images_first_wins(fs, found_image_refs, assets, copy_results) ==
    IF found_image_refs = <<>> THEN [assets |-> assets, copy_results |-> copy_results]
    ELSE LET ref == Head(found_image_refs)
             basename == ref.resolved_path.name
         IN  IF ~ResolvedExists(fs, ref.resolved_path)
             THEN copy_found_images_first_wins(fs, Tail(found_image_refs), assets,
                                               copy_results)
             ELSE copy_found_images_first_wins(
                      fs, Tail(found_image_refs),
                      [x \in DOMAIN assets \cup {basename} |->
                          IF x \in DOMAIN assets THEN assets[x]
                          ELSE ResolvedData(fs, ref.resolved_path)],
                      [x \in DOMAIN copy_results \cup {ref.original_path} |->
                          IF x = ref.original_path THEN basename ELSE copy_results[x]])

RECURSIVE copy_found_images(_, _, _, _)
\* copy_found_images(session_path, found_image_refs): every ref whose
\* resolved path exists is copied to assets/<basename> (the last copy wins)
\* and entered in copy_results; a ref whose copy raises OSError is passed
\* over
copy_found_images(fs, found_image_refs, assets, copy_results) ==
    IF found_image_refs = <<>> THEN [assets |-> assets, copy_results |-> copy_results]
    ELSE LET ref == Head(found_image_refs)
             basename == ref.resolved_path.name
         IN  IF ~ResolvedExists(fs, ref.resolved_path)
             THEN copy_found_images(fs, Tail(found_image_refs), assets, copy_results)
             ELSE IF CopyOutcome(fs, ref.resolved_path) = "fail_clean"
             THEN copy_found_images(fs, Tail(found_image_refs), assets, copy_results)
             ELSE IF CopyOutcome(fs, ref.resolved_path) = "fail_partial"
             THEN copy_found_images(
                      fs, Tail(found_image_refs),
                      [x \in DOMAIN assets \cup {basename} |->
                          IF x = basename THEN "partial" ELSE assets[x]],
                      copy_results)
             ELSE copy_found_images(
                      fs, Tail(found_image_refs),
                      [x \in DOMAIN assets \cup {basename} |->
                          IF x = basename THEN ResolvedData(fs, ref.resolved_path)
                          ELSE assets[x]],
                      [x \in DOMAIN copy_results \cup {ref.original_path} |->
                          IF x = ref.original_path THEN basename ELSE copy_results[x]])

\* apply_asset_scan_results(session_path, found_image_refs): the session's
\* files afterwards
apply_asset_scan_results(fs, found_image_refs) ==
    LET copied == copy_found_images(fs, found_image_refs, fs.assets, <<>>)
    IN  [fs EXCEPT !.assets = copied.assets,
                   !.inputs = rewrite_input_files(fs.inputs, found_image_refs,
                                                  copied.copy_results, fs.linesep)]

\* image paths, resolved paths and references of a scan; a path written in
\* a file can lead, through a link on disk, to a file of another name
ScanPathTexts == {"img/y.png", "./assets/y.png", "a.md"}

ResolvedPaths ==
    {[area |-> "ext", name |-> "y.png"], [area |-> "ext", name |-> "w.png"],
     [area |-> "inputs", name |-> "a.md"]}

\* ImageRefResult
ImageRefResults ==
    [original_path : ScanPathTexts, resolved_path : ResolvedPaths, source_file : {"a.md"}]

MaxFoundRefs == 2

SeqsUpTo(S, n) == UNION {[1..k -> S] : k \in 0..n}

\* a session before the scan results are applied: one input file, no
\* asset, two image files outside the session; linesep is os.linesep
AssetSessions ==
    {[inputs |-> ("a.md" :> content), assets |-> <<>>,
      ext |-> ("y.png" :> "Y" @@ "w.png" :> "W"), linesep |-> linesep] :
        content \in SeqsUpTo({Image("x", p, "none", FALSE) : p \in ScanPathTexts}
                             \cup {Piece("lf")}, 2),
        linesep \in {"lf", "crlf"}}

\* the contents given to rewrite_refs_in_content
RewriteContents ==
    SeqsUpTo({Piece("text"), Link("p.png")}
             \cup {Image(alt, path, title, spaced) :
                      alt \in {"a", "b"}, path \in {"p.png", "q.png"},
                      title \in {"none", "t"}, spaced \in BOOLEAN},
             MaxContentLen)

\* the contents of the file given to rewrite_input_files
FileContents ==
    SeqsUpTo({Piece("lf"), Piece("crlf")}
             \cup {Image("a", "p.png", title, FALSE) : title \in {"none", "lf", "crlf"}},
             MaxContentLen)

\* nothing has been called yet; each call below is made on a fresh session
AssetInit ==
    /\ sm = [inputs |-> <<>>, assets |-> <<>>, ext |-> <<>>, linesep |-> "lf"]
    /\ called = "none"
    /\ arg = [n |-> 0]
    /\ result = <<>>
    /\ state = build_initial_state
    /\ pc = "call"
    /\ fixRoutes = 0
    /\ rollbacks = 0
    /\ cp = NoCheckpoints
    /\ op = IdleOp
    /\ waiting = NoCall
    /\ issued = {}
    /\ restores = 0

CallRewriteRefsInContent ==
    /\ called = "none"
    /\ \E content \in RewriteContents :
          /\ arg' = [content |-> content, original_path |-> "p.png", basename |-> "y.png",
                     n |-> 0]
          /\ result' = rewrite_refs_in_content(content, "p.png", "y.png")
    /\ called' = "rewrite_refs_in_content"
    /\ UNCHANGED <<state, pc, fixRoutes, disk>>

CallRewriteInputFiles ==
    /\ called = "none"
    /\ \E content \in FileContents,
          found_image_refs \in SeqsUpTo({[original_path |-> "p.png",
                                          resolved_path |-> [area |-> "ext", name |-> "y.png"],
                                          source_file |-> "a.md"]}, 1),
          copy_results \in {<<>>, "p.png" :> "y.png"},
          linesep \in {"lf", "crlf"} :
          /\ arg' = [inputs |-> ("a.md" :> content), found_image_refs |-> found_image_refs,
                     copy_results |-> copy_results, linesep |-> linesep, n |-> 0]
          /\ result' = rewrite_input_files("a.md" :> content, found_image_refs,
                                           copy_results, linesep)
    /\ called' = "rewrite_input_files"
    /\ UNCHANGED <<state, pc, fixRoutes, disk>>

\* apply_asset_scan_results on a session, for the first time
CallApplyAssetScanResults ==
    /\ called = "none"
    /\ \E fs \in AssetSessions, found_image_refs \in SeqsUpTo(ImageRefResults, MaxFoundRefs) :
          /\ arg' = [found_image_refs |-> found_image_refs, before |-> fs, n |-> 1]
          /\ sm' = apply_asset_scan_results(fs, found_image_refs)
    /\ called' = "apply_asset_scan_results"
    /\ result' = <<>>
    /\ UNCHANGED <<state, pc, fixRoutes, rollbacks, cp, op, waiting, issued, restores>>

\* apply_asset_scan_results once more, with the same references
ApplyAssetScanResultsAgain ==
    /\ called = "apply_asset_scan_results"
    /\ arg.n = 1
    /\ arg' = [arg EXCEPT !.before = sm, !.n = 2]
    /\ sm' = apply_asset_scan_results(sm, arg.found_image_refs)
    /\ UNCHANGED <<state, pc, called, result, fixRoutes, rollbacks, cp, op, waiting, issued, restores>>

AssetNext ==
    \/ CallRewriteRefsInContent
    \/ CallRewriteInputFiles
    \/ CallApplyAssetScanResults
    \/ ApplyAssetScanResultsAgain

AssetSpec == AssetInit /\ [][AssetNext]_vars

\* C28: applying the same found image references a second time leaves the
\* content of the input files and the files of the assets area as the first
\* application left them
C28_ApplyTwiceChangesNothing ==
    (called = "apply_asset_scan_results" /\ arg.n = 2) =>
        /\ sm.inputs = arg.before.inputs
        /\ sm.assets = arg.before.assets

\* C29: rewrite_refs_in_content changes only image references whose path is
\* original_path, and in them only the path, which becomes
\* ./assets/<basename>; every other piece of the content stays as it was
C29_OnlyMatchingPathsChange ==
    called = "rewrite_refs_in_content" =>
        /\ Len(result) = Len(arg.content)
        /\ \A i \in 1..Len(arg.content) :
              \/ result[i] = arg.content[i]
              \/ /\ arg.content[i].kind = "image"
                 /\ arg.content[i].path = arg.original_path
                 /\ result[i] = [arg.content[i] EXCEPT !.path = AssetPath(arg.basename)]

\* C30: the file rewrite_input_files leaves has the line endings of the file
\* it read: all CRLF stays all CRLF, all LF stays all LF, and there are as
\* many line endings as before
C30_LineEndingsPreserved ==
    called = "rewrite_input_files" =>
        \A f \in DOMAIN arg.inputs :
            LET before == LineEndings(arg.inputs[f])
                after == LineEndings(result[f])
                all(s, e) == \A k \in 1..Len(s) : s[k] = e
            IN  /\ all(before, "crlf") => all(after, "crlf")
                /\ all(before, "lf") => all(after, "lf")
                /\ Len(after) = Len(before)

----------------------------------------------------------------------------
(* Specification HandlerSpec: error_handler_node (backend/graph_nodes.py)  *)
(* called on states as the tests build them: an initial state with a      *)
(* retry_count, a checkpoint id, messages and other keys set               *)

HandlerStates ==
    {MkState(o) : o \in [session_id : {{"uuid-1"}},
                         input_files : {{<<"doc.md">>}},
                         retry_count : OptInt,
                         last_checkpoint_id : {{}, {<<>>}, {<<"a">>}, {<<"a", "a">>}},
                         status : {{"processing"}, {"error_handling"}},
                         messages : {{<<>>}, {<<"message1", "message2">>}},
                         custom_field : {{}, {"custom_value"}}]}

HandlerInit ==
    /\ state \in HandlerStates
    /\ cp \in {NoCheckpoints, RunCheckpoints}
    /\ pc = "call"
    /\ called = "none"
    /\ arg = [state |-> state, cp |-> cp, io |-> "ok"]
    /\ result = "none"
    /\ fixRoutes = 0
    /\ rollbacks = 0
    /\ sm = NoSessions
    /\ op = IdleOp
    /\ waiting = NoCall
    /\ issued = {}
    /\ restores = 0

\* result = error_handler_node(state)
CallErrorHandlerNode ==
    /\ pc = "call"
    /\ GetOr(state, "retry_count", 0) <= MaxCount
    /\ \E io \in IoOutcomes, error_type \in ErrorTypes :
          LET r == error_handler_node(state, cp, io, error_type)
          IN  /\ called' = "error_handler_node"
              /\ arg' = [state |-> state, cp |-> cp, io |-> io]
              /\ result' = r.restore
              /\ state' = r.state
              /\ cp' = r.fs
              /\ restores' = IF r.restore = "True" THEN restores + 1 ELSE restores
    /\ UNCHANGED <<pc, fixRoutes, rollbacks, sm, op, waiting, issued>>

HandlerNext ==
    \/ CallErrorHandlerNode

HandlerSpec == HandlerInit /\ [][HandlerNext]_vars

----------------------------------------------------------------------------
(* The initial state of a run, checked under RunSpec *)

\* C34: the state build_initial_state returns, with which a run starts,
\* holds every counter and flag the routers read at its default:
\* fix_attempts = 0, retry_count = 0, last_checkpoint_id = "" and
\* pending_question = ""
C34_InitialStateHasRouterDefaults ==
    (pc = "agent" /\ called = "none" /\ state = build_initial_state) =>
        /\ Has(state, "retry_count") /\ state["retry_count"] = 0
        /\ Has(state, "last_checkpoint_id") /\ state["last_checkpoint_id"] = <<>>
        /\ Has(state, "pending_question") /\ state["pending_question"] = <<>>
        /\ Has(state, "fix_attempts") /\ state["fix_attempts"] = 0

----------------------------------------------------------------------------
(* Specification CopySpec: copy_found_images on lists of references whose *)
(* sources lie in two directories and may share a base name               *)

MaxCopyRefs == 3

\* the files the references resolve to: y.png in two directories, w.png
CopySources ==
    {[area |-> "ext", name |-> "y.png"], [area |-> "ext2", name |-> "y.png"],
     [area |-> "ext", name |-> "w.png"]}

\* ImageRefResult: the path as written, the resolved path, the source file
CopyRefs ==
    [original_path : {"a/y.png", "b/y.png", "w.png"}, resolved_path : CopySources,
     source_file : {"a.md"}]

\* the disk before the call: which sources exist, how copying each y.png
\* ends, and whether assets/y.png is there from an earlier run
CopySessions ==
    [inputs : {<<>>},
     assets : {<<>>, "y.png" :> "old"},
     ext : {"y.png" :> "Y1" @@ "w.png" :> "W", "w.png" :> "W"},
     ext2 : {"y.png" :> "Y2", <<>>},
     io : [{r \in CopySources : r.name = "y.png"} -> IoOutcomes]]

CopyInit ==
    /\ called = "none"
    /\ arg = [n |-> 0]
    /\ result = <<>>
    /\ state = build_initial_state
    /\ pc = "call"
    /\ fixRoutes = 0
    /\ rollbacks = 0
    /\ cp = NoCheckpoints
    /\ sm = NoSessions
    /\ op = IdleOp
    /\ waiting = NoCall
    /\ issued = {}
    /\ restores = 0

\* copy_results = copy_found_images(session_path, found_image_refs)
CallCopyFoundImages ==
    /\ called = "none"
    /\ \E fs \in CopySessions, k \in 0..MaxCopyRefs :
          \E found_image_refs \in [1..k -> CopyRefs] :
             /\ arg' = [fs |-> fs, found_image_refs |-> found_image_refs]
             /\ result' = copy_found_images(fs, found_image_refs, fs.assets, <<>>)
    /\ called' = "copy_found_images"
    /\ UNCHANGED <<state, pc, fixRoutes, disk>>

CopyNext ==
    \/ CallCopyFoundImages

CopySpec == CopyInit /\ [][CopyNext]_vars

\* the references of the call whose source exists, and those copied
SourceExists(i) == ResolvedExists(arg.fs, arg.found_image_refs[i].resolved_path)

Copied(i) ==
    /\ SourceExists(i)
    /\ CopyOutcome(arg.fs, arg.found_image_refs[i].resolved_path) = "ok"

\* the last index in I (a non-empty set of indices)
LastOf(I) == CHOOSE i \in I : \A j \in I : j <= i

\* C35: after copy_found_images, assets/<basename> holds the content of the
\* last reference in list order with that base name whose source exists
\* (its copy meeting no I/O error), also when earlier references with that
\* base name came from other source paths; an asset no reference names is
\* as it was; copy_results holds exactly the original paths of the copied
\* references, each mapped to the base name of its (last) copied reference
C35_LastCopyWins ==
    called = "copy_found_images" =>
        LET refs == arg.found_image_refs
            WithName(b) == {i \in 1..Len(refs) :
                               refs[i].resolved_path.name = b /\ SourceExists(i)}
            WithOriginal(o) == {i \in 1..Len(refs) :
                                   refs[i].original_path = o /\ Copied(i)}
        IN  /\ \A b \in {"y.png", "w.png"} :
                  IF WithName(b) = {}
                  THEN /\ (b \in DOMAIN result.assets) = (b \in DOMAIN arg.fs.assets)
                       /\ b \in DOMAIN result.assets => result.assets[b] = arg.fs.assets[b]
                  ELSE Copied(LastOf(WithName(b))) =>
                           /\ b \in DOMAIN result.assets
                           /\ result.assets[b] =
                                  ResolvedData(arg.fs, refs[LastOf(WithName(b))].resolved_path)
            /\ DOMAIN result.copy_results =
                  {refs[i].original_path : i \in {j \in 1..Len(refs) : Copied(j)}}
            /\ \A o \in DOMAIN result.copy_results :
                  result.copy_results[o] = refs[LastOf(WithOriginal(o))].resolved_path.name

C35_Witness ==
    /\ called = "copy_found_images"
    /\ Len(arg.found_image_refs) = 3
    /\ arg.found_image_refs[1] =
           [original_path |-> "a/y.png", resolved_path |-> [area |-> "ext", name |-> "y.png"],
            source_file |-> "a.md"]
    /\ arg.found_image_refs[2] =
           [original_path |-> "b/y.png", resolved_path |-> [area |-> "ext2", name |-> "y.png"],
            source_file |-> "a.md"]
    /\ arg.found_image_refs[3].resolved_path.name = "w.png"
    /\ Copied(1) /\ Copied(2)
    /\ arg.fs.assets = <<>>
    /\ result.assets["y.png"] = "Y2"
    /\ result.copy_results["a/y.png"] = "y.png"
    /\ result.copy_results["b/y.png"] = "y.png"

----------------------------------------------------------------------------
(* Specification CollideSpec: SessSpec with a uuid.uuid4() that can return *)
(* the id of a session that is on the disk                                 *)

\* create(): session_id = str(uuid.uuid4()), the random id being that of an
\* existing session
CreateStartColliding ==
    /\ op.name = "idle"
    /\ op.n + waiting.op.n < MaxCalls
    /\ \E sid \in Uuids :
          /\ sm.live[sid].exists
          /\ op' = [IdleOp EXCEPT !.name = "create", !.id = sid, !.pc = "mkdir_root",
                                  !.n = op.n + 1]
          /\ arg' = [id |-> sid, archive |-> FALSE, sm |-> sm]
          /\ issued' = issued \cup {sid}
    /\ called' = "create"
    /\ result' = "running"
    /\ UNCHANGED <<others, sm>>

CollideNext ==
    \/ SessNext
    \/ CreateStartColliding

CollideSpec == SessInit /\ [][CollideNext]_vars

\* C36: while create() runs and after it has returned or raised, the
\* directory tree of every session that was there before the call is as it
\* was, also when the generated id is that of one of those sessions
C36_CreateKeepsExistingSessions ==
    called = "create" =>
        \A sid \in Uuids : Exists(arg.sm, sid) => sm.live[sid] = arg.sm.live[sid]

----------------------------------------------------------------------------
(* Specification DoneLoopSpec: the loop agent -> tools -> route_after_tools *)
(* once everything is generated: generation_complete is true, no question  *)
(* is pending and every validation passes                                  *)

DoneStates ==
    {s \in AllStates :
        /\ GetTruthyBool(s, "generation_complete")
        /\ GetAndStripItem(s, "pending_question") = "falsy"
        /\ ~Has(s, "fix_attempts")
        /\ ~Has(s, "retry_count")}

DoneInit ==
    /\ state \in DoneStates
    /\ pc = "agent"
    /\ called = "none"
    /\ arg = state
    /\ result = "none"
    /\ fixRoutes = 0
    /\ rollbacks = 0
    /\ cp = RunCheckpoints
    /\ sm = NoSessions
    /\ op = IdleOp
    /\ waiting = NoCall
    /\ issued = {}
    /\ restores = 0

\* the tools node when nothing is left to generate: no new question, no new
\* chapter; last_checkpoint_id is as the checkpoint step left it
DoneToolsNode ==
    /\ pc = "tools"
    /\ pc' = "route_tools"
    /\ UNCHANGED <<state, called, arg, result, fixRoutes>>
    /\ UNCHANGED disk

DoneNext ==
    \/ AgentNode
    \/ DoneToolsNode
    \/ RouteAfterToolsEdge
    \/ ValidateMd(TRUE)
    \/ IncrementFixAttemptsNode
    \/ RouteAfterValidationEdge
    \/ CheckpointNode

\* the graph executor runs the next node whenever there is one
DoneLoopSpec == DoneInit /\ [][DoneNext]_vars /\ WF_vars(DoneNext)

\* C37: once generation_complete is true, pending_question is empty and
\* every validation passes, the run eventually routes to "complete", also
\* when last_checkpoint_id was set by an earlier checkpoint step.
C37_DoneLoopReachesComplete ==
    <>(pc = "complete" /\ called = "route_after_tools" /\ result = "complete")

----------------------------------------------------------------------------
(* Specification RetrySpec: the error loop when no step records a new      *)
(* checkpoint: every node that runs after a rollback raises before the     *)
(* checkpoint step is reached                                              *)

RetryNext ==
    \/ NodeRaises
    \/ ErrorHandlerNode
    \/ RouteAfterErrorEdge
    \/ RollbackNode

RetrySpec == ErrInit /\ [][RetryNext]_vars

----------------------------------------------------------------------------
(* C39, checked under RetrySpec *)

\* C39: for one handled error with a non-empty last_checkpoint_id, the
\* checkpoint is copied over the working output at most once along the
\* path error_handler_node -> route_after_error -> rollback_node.
C39_OneRestorePerError ==
    restores <= 1

----------------------------------------------------------------------------
(* C40, checked under MergeSpec *)

\* C40: the workflow START -> scan_assets -> END changes only status, to
\* "complete": messages and missing_references of the final state are those
\* of the input state, no entry is duplicated by the merge of the node's
\* return value, and every other key keeps its value.
C40_ScanAssetsChangesOnlyStatus ==
    called = "scan_assets_node" =>
        /\ DOMAIN state = DOMAIN arg.before
        /\ state["status"] = "complete"
        /\ \A k \in DOMAIN arg.before \ {"status"} : state[k] = arg.before[k]

====
